---- MODULE Spec2Model ----
(***************************************************************************)
(* A model of the synchronisation engine of YT_daily.py: the History       *)
(* store (channel_history), the planner (process_channel_auto,             *)
(* process_playlist_auto, process_channel_first_run), the bounded pool of  *)
(* download jobs (download_videos_parallel, download_video), the success   *)
(* test of one download attempt (_execute_download) and the pass           *)
(* (run_auto_download).                                                    *)
(*                                                                         *)
(* A video is a record [id, duration]; titles and urls are functions of    *)
(* the id in the program (url = watch?v=<id>) and are left out.  An entry  *)
(* of downloaded_videos is represented by its id; timestamps are left out. *)
(***************************************************************************)
EXTENDS Integers, Sequences, FiniteSets, TLC

VARIABLES
    channels,              \* self.channels: sequence of [key, name], in dict order
    playlists,             \* self.playlists: sequence of [key, name], in dict order
    config,                \* self.config, the fields the engine reads
    upstream,              \* url -> the listing the retrieval tool returns for it
    channel_history,       \* self.channel_history (in memory)
    channel_history_file,  \* channel_history.json (on disk)
    download_history,      \* self.download_history: source key -> last id
    last_download,         \* self.last_download: id of the last success
    resume_state,          \* self.resume_state["videos"]: id -> entry
    resume_state_file,     \* resume_state.json (on disk)
    files,                 \* id -> size class of the local artifact of that title
    pc,                    \* position of run_auto_download
    first_pass,            \* the branch taken at line 1947 in this pass
    videos_per_channel,    \* first-run limit of this pass
    next_source,           \* index of the next source to scan and plan
    all_download_tasks,    \* the pass's task list
    jobs,                  \* one record per submitted future
    scan_log,              \* per source of this pass: what the scan met and returned
    pass_stats,            \* counters of the running pass
    pass_log,              \* summaries of the finished passes
    planner,               \* input and output of one planner call (SpecPlan)
    commit_log,            \* the update_channel_history calls made (SpecHist)
    exec,                  \* one run of _execute_download (SpecExec)
    succeeded,             \* the downloads that succeeded: [id, pass]
    failures,              \* the downloads that failed: [id, key]
    dv,                    \* the download_video calls of a pool (SpecJob)
    scanner,               \* one call of get_all_recent_videos (SpecScan)
    dcache,                \* a DirectoryDurationCache and its files (SpecCache)
    boot                   \* one start of the process: main (SpecBoot)

vars == << channels, playlists, config, upstream, channel_history,
           channel_history_file, download_history, last_download, resume_state,
           files, pc, first_pass, videos_per_channel, next_source,
           all_download_tasks, jobs, scan_log, pass_stats, pass_log, planner,
           commit_log, exec, resume_state_file, succeeded, failures, dv,
                 scanner, dcache, boot >>

----------------------------------------------------------------------------
(* Bounds of the model *)

MaxLimit == 2
MaxPasses == 2
MaxScan == 3
PassParallel == 1
MaxCommits == 4
NumSchedTasks == 5
MaxLines == 3
MaxAttempts == 3
MaxStamp == 2
MaxSize == 2

(* Program constants *)

HistoryCap == 1000
ShortThreshold == 60
FallbackCeiling == 50
InitialVideosPerChannel == 5
GapCheckLimit == 10
MaxVideosPerChannel == 100
MaxRetries == 2
MaxParallelDownloads == 3

----------------------------------------------------------------------------
(* Helpers *)

None == "None"

Range(s) == { s[i] : i \in DOMAIN s }

Min(a, b) == IF a < b THEN a ELSE b

\* the first n elements of s: what "--playlist-items 1-n" selects
Take(s, n) == SubSeq(s, 1, IF n < 0 THEN 0 ELSE Min(n, Len(s)))

\* all sequences over S of length at most n
SeqsUpTo(S, n) == UNION { [1..k -> S] : k \in 0..n }

EmptyMap == [x \in {} |-> None]

RECURSIVE SetToSeq(_)
SetToSeq(S) ==
    IF S = {} THEN <<>>
    ELSE LET x == CHOOSE y \in S : TRUE IN <<x>> \o SetToSeq(S \ {x})

----------------------------------------------------------------------------
(* Videos *)

VideoDuration ==
    ("v1" :> 200) @@ ("v2" :> 30) @@ ("v3" :> 120) @@
    ("v4" :> 60) @@ ("v5" :> 45) @@ ("v6" :> 90)

Video(id) == [id |-> id, duration |-> VideoDuration[id]]

\* "https://www.youtube.com/@{handle}/videos"
ChannelUrl(handle) == "@" \o handle

----------------------------------------------------------------------------
(* History store *)

\* load_channel_history when no file exists
FreshHistory == [channels |-> EmptyMap, first_run_completed |-> FALSE]

is_first_run == ~ channel_history.first_run_completed

downloaded_videos(handle) ==
    IF handle \in DOMAIN channel_history.channels
    THEN channel_history.channels[handle].downloaded_videos
    ELSE <<>>

is_video_downloaded(handle, video_id) ==
    /\ handle \in DOMAIN channel_history.channels
    /\ \E i \in DOMAIN channel_history.channels[handle].downloaded_videos :
          channel_history.channels[handle].downloaded_videos[i] = video_id

\* an update that leaves the file as it was
save_channel_history_skipped == UNCHANGED channel_history_file

\* save_channel_history: the whole History is written to the file
save_channel_history == channel_history_file' = channel_history'

\* update_channel_history without the membership test of line 374
update_channel_history_nodedup(handle, video_info) ==
    LET chans == channel_history.channels
        with_entry == IF handle \in DOMAIN chans THEN chans
                      ELSE chans @@ (handle :> [downloaded_videos |-> <<>>])
        appended == Append(with_entry[handle].downloaded_videos, video_info.id)
    IN  /\ Len(appended) <= HistoryCap
        /\ channel_history' = [channel_history EXCEPT !.channels =
                 [with_entry EXCEPT ![handle].downloaded_videos = appended]]
        /\ save_channel_history

\* a cap that keeps the first entries of the list
keep_first(videos) ==
    IF Len(videos) > HistoryCap THEN SubSeq(videos, 1, HistoryCap) ELSE videos

\* lines 383-385: downloaded_videos[-1000:]
keep_last(videos) ==
    IF Len(videos) > HistoryCap
    THEN SubSeq(videos, Len(videos) - HistoryCap + 1, Len(videos))
    ELSE videos

update_channel_history(handle, video_info) ==
    LET chans == channel_history.channels
        with_entry == IF handle \in DOMAIN chans THEN chans
                      ELSE chans @@ (handle :> [downloaded_videos |-> <<>>])
        existing_ids == Range(with_entry[handle].downloaded_videos)
        appended == Append(with_entry[handle].downloaded_videos, video_info.id)
        kept == keep_last(appended)
    IN  IF video_info.id \notin existing_ids
        THEN /\ channel_history' = [channel_history EXCEPT !.channels =
                      [with_entry EXCEPT ![handle].downloaded_videos = kept]]
             /\ save_channel_history
        ELSE /\ channel_history' = [channel_history EXCEPT !.channels = with_entry]
             /\ UNCHANGED channel_history_file

\* a first run that leaves the flag as it was
mark_first_run_left_out == UNCHANGED << channel_history, channel_history_file >>

mark_first_run_completed ==
    /\ channel_history' = [channel_history EXCEPT !.first_run_completed = TRUE]
    /\ save_channel_history

----------------------------------------------------------------------------
(* Resume store and local artifacts *)

\* the entry update_resume_state writes: its timestamp is the time of the call.
\* expired: the timestamp is older than resume_cache_days at the next start
ResumeEntry(progress) == [progress |-> progress, expired |-> FALSE]

put_entry(store, item_id, data) ==
    [k \in DOMAIN store \cup {item_id} |-> IF k = item_id THEN data ELSE store[k]]

\* a clear that deletes nothing
del_entry_kept(store, item_id) == store

del_entry(store, item_id) ==
    [k \in DOMAIN store \ {item_id} |-> store[k]]

\* a resume file as one whole json.dump of the store left it; len stands for the
\* length of the text, one unit per entry
ResumeFile(videos) ==
    [state |-> "ok", videos |-> videos, len |-> Cardinality(DOMAIN videos)]

\* load_resume_state: a file that does not parse gives an empty store; entries
\* older than resume_cache_days are dropped
load_resume_state(file) ==
    IF file.state # "ok"
    THEN EmptyMap
    ELSE [k \in { x \in DOMAIN file.videos : ~ file.videos[x].expired } |->
             file.videos[k]]

\* update_resume_state and clear_resume_state, each as one step
update_resume_state(video_id, progress) ==
    /\ resume_state' = put_entry(resume_state, video_id, ResumeEntry(progress))
    /\ resume_state_file' = ResumeFile(resume_state')

clear_resume_state(video_id) ==
    /\ resume_state' = del_entry(resume_state, video_id)
    /\ resume_state_file' = ResumeFile(resume_state')

\* check_existing_download: the first file matching the title decides; above
\* 1 MB it counts as half done, otherwise as complete
check_existing_download(video_id) ==
    IF video_id \notin DOMAIN files
    THEN [can_resume |-> FALSE, progress |-> 0]
    ELSE IF files[video_id] = "large"
         THEN [can_resume |-> TRUE, progress |-> 50]
         ELSE [can_resume |-> TRUE, progress |-> 100]

\* lines 1360-1368
is_resumable(existing, has_entry) ==
    \/ existing.can_resume /\ existing.progress < 100
    \/ has_entry /\ existing.progress < 100

\* a first attempt that failed is always launched again
retry_any_failure(success, has_subtitles, attempt, outcome) ==
    ~ success /\ attempt = 1

\* line 1405, inside the has_subtitles branch: the error text names subtitles or 429
retry_without_subtitles(success, has_subtitles, attempt, outcome) ==
    ~ success /\ has_subtitles /\ attempt = 1 /\ outcome = "subtitle_error"

----------------------------------------------------------------------------
(* Planner *)

Task(video_info, source_name, task_type, key) ==
    [video_info |-> video_info, source_name |-> source_name,
     task_type |-> task_type, key |-> key]   \* key: the source scanned (not in the tuple)

NoPlan == [download_tasks |-> <<>>, new_videos_count |-> 0,
           already_downloaded_count |-> 0, shorts_skipped |-> 0]

is_short(video_info) == config.filter_shorts /\ video_info.duration < ShortThreshold

\* the loop of lines 1641-1656 and 1714-1732
RECURSIVE plan_loop(_, _, _, _, _)
plan_loop(key, source_name, task_type, recent_videos, acc) ==
    IF recent_videos = <<>> THEN acc
    ELSE LET video_info == Head(recent_videos)
             next == IF is_short(video_info)
                       THEN [acc EXCEPT !.shorts_skipped = @ + 1]
                     ELSE IF is_video_downloaded(key, video_info.id)
                       THEN [acc EXCEPT !.already_downloaded_count = @ + 1]
                     ELSE [acc EXCEPT
                             !.download_tasks =
                                 Append(@, Task(video_info, source_name, task_type, key)),
                             !.new_videos_count = @ + 1]
         IN  plan_loop(key, source_name, task_type, Tail(recent_videos), next)

\* the loop with the history test placed before the shorts test
RECURSIVE plan_loop_history_first(_, _, _, _, _)
plan_loop_history_first(key, source_name, task_type, recent_videos, acc) ==
    IF recent_videos = <<>> THEN acc
    ELSE LET video_info == Head(recent_videos)
             next == IF is_video_downloaded(key, video_info.id)
                       THEN [acc EXCEPT !.already_downloaded_count = @ + 1]
                     ELSE IF is_short(video_info)
                       THEN [acc EXCEPT !.shorts_skipped = @ + 1]
                     ELSE [acc EXCEPT
                             !.download_tasks =
                                 Append(@, Task(video_info, source_name, task_type, key)),
                             !.new_videos_count = @ + 1]
         IN  plan_loop_history_first(key, source_name, task_type, Tail(recent_videos), next)

process_channel_auto_history_first(handle, display_name, recent_videos) ==
    plan_loop_history_first(handle, display_name, "channel", recent_videos, NoPlan)

\* process_channel_auto after the scan: classification of recent_videos
process_channel_auto(handle, display_name, recent_videos) ==
    plan_loop(handle, display_name, "channel", recent_videos, NoPlan)

\* process_playlist_auto after the scan
process_playlist_auto(playlist_url, playlist_name, recent_videos) ==
    plan_loop(playlist_url, playlist_name, "playlist", recent_videos, NoPlan)

\* process_channel_first_run after the scan: every scanned video is a task
process_channel_first_run(handle, display_name, recent_videos) ==
    [NoPlan EXCEPT
        !.download_tasks = [i \in 1..Len(recent_videos) |->
                               Task(recent_videos[i], display_name, "channel", handle)],
        !.new_videos_count = Len(recent_videos)]

----------------------------------------------------------------------------
(* Values of the variables a specification does not use *)

DefaultConfig ==
    [filter_shorts |-> TRUE,
     max_parallel_downloads |-> MaxParallelDownloads,
     max_retries |-> MaxRetries,
     initial_videos_per_channel |-> InitialVideosPerChannel,
     gap_check_limit |-> GapCheckLimit,
     max_videos_per_channel |-> MaxVideosPerChannel,
     ask_video_limit_per_channel |-> FALSE]

NoPlanner == [scan |-> <<>>, policy |-> None, out |-> NoPlan]
NoExec == [pc |-> None]
NoCalls == [thr |-> <<>>, restarted |-> FALSE]
NoScan == [pc |-> None]
NoCache == [pc |-> None]
NoBoot == [pc |-> None]
\* of one pass: whether it took the first-run branch, started a download job, saw a
\* job fail, appended to History, and whether the tool answered every scan
NoStats == [first_run |-> FALSE, started |-> FALSE, failed |-> FALSE,
            appended |-> FALSE, quiet |-> TRUE, crashed |-> FALSE]

SourcesIdle ==
    /\ channels = << [key |-> "h1", name |-> "A"] >>
    /\ playlists = << [key |-> "p1", name |-> "P"] >>
    /\ upstream = EmptyMap

StoresIdle ==
    /\ download_history = EmptyMap
    /\ last_download = None
    /\ resume_state = EmptyMap
    /\ resume_state_file = ResumeFile(EmptyMap)
    /\ files = EmptyMap
    /\ succeeded = {}
    /\ failures = {}

PassIdle ==
    /\ pc = "idle"
    /\ first_pass = FALSE
    /\ videos_per_channel = 0
    /\ next_source = 1
    /\ all_download_tasks = <<>>
    /\ jobs = <<>>
    /\ scan_log = EmptyMap
    /\ pass_stats = NoStats
    /\ pass_log = <<>>

----------------------------------------------------------------------------
(* SpecHist: any sequence of commits, from an empty History *)

HistHandles == {"h1", "h2", "p1"}
HistIds == {"v1", "v2", "v3"}

InitHist ==
    /\ channel_history = FreshHistory
    /\ channel_history_file = FreshHistory
    /\ config = DefaultConfig
    /\ SourcesIdle /\ StoresIdle /\ PassIdle
    /\ planner = NoPlanner
    /\ commit_log = <<>>
    /\ exec = NoExec
    /\ dv = NoCalls
    /\ scanner = NoScan /\ dcache = NoCache /\ boot = NoBoot

Commit ==
    \E handle \in HistHandles, id \in HistIds :
        /\ Len(commit_log) < MaxCommits
        /\ update_channel_history(handle, Video(id))
        /\ commit_log' = Append(commit_log, [handle |-> handle, id |-> id])
        /\ UNCHANGED << channels, playlists, config, upstream, download_history,
                        last_download, resume_state, files, pc, first_pass,
                        videos_per_channel, next_source, all_download_tasks, jobs,
                        scan_log, pass_stats, pass_log, planner, exec,
                        resume_state_file, succeeded, failures, dv,
                 scanner, dcache, boot >>

NextHist == Commit

SpecHist == InitHist /\ [][NextHist]_vars

----------------------------------------------------------------------------
(* SpecCap: commits to one channel whose History is at the cap or just below; *)
(* the ids committed are new ones and the oldest id of the initial History    *)

CapIds == {"v1", "v2", "v3", "1"}

InitCap ==
    /\ \E n \in {HistoryCap - 2, HistoryCap - 1, HistoryCap} :
          channel_history =
              [channels |-> ("h1" :> [downloaded_videos |-> [i \in 1..n |-> ToString(i)]]),
               first_run_completed |-> TRUE]
    /\ channel_history_file = channel_history
    /\ config = DefaultConfig
    /\ SourcesIdle /\ StoresIdle /\ PassIdle
    /\ planner = NoPlanner
    /\ commit_log = <<>>
    /\ exec = NoExec
    /\ dv = NoCalls
    /\ scanner = NoScan /\ dcache = NoCache /\ boot = NoBoot

CommitAtCap ==
    \E id \in CapIds :
        /\ Len(commit_log) < MaxCommits
        /\ update_channel_history("h1", [id |-> id, duration |-> 100])
        /\ commit_log' = Append(commit_log, [handle |-> "h1", id |-> id])
        /\ UNCHANGED << channels, playlists, config, upstream, download_history,
                        last_download, resume_state, files, pc, first_pass,
                        videos_per_channel, next_source, all_download_tasks, jobs,
                        scan_log, pass_stats, pass_log, planner, exec,
                        resume_state_file, succeeded, failures, dv,
                        scanner, dcache, boot >>

NextCap == CommitAtCap

SpecCap == InitCap /\ [][NextCap]_vars

----------------------------------------------------------------------------
(* SpecPlan: one call of a planner on any History and any scan result *)

PlanIds == {"v1", "v2", "v3"}

\* the records a scan may hold: each id with the durations it is tried with
PlanVideos ==
    { [id |-> "v1", duration |-> 200], [id |-> "v1", duration |-> 45],
      [id |-> "v2", duration |-> 30],  [id |-> "v2", duration |-> 60],
      [id |-> "v3", duration |-> 120] }

PlanHistories ==
    { [channels |-> EmptyMap, first_run_completed |-> f] : f \in BOOLEAN }
    \cup
    { [channels |-> [k \in {"h1", "p1"} |-> [downloaded_videos |-> SetToSeq(S)]],
       first_run_completed |-> TRUE] : S \in SUBSET PlanIds }

InitPlan ==
    /\ channel_history \in PlanHistories
    /\ channel_history_file = channel_history
    /\ config \in { [DefaultConfig EXCEPT !.filter_shorts = f] : f \in BOOLEAN }
    /\ SourcesIdle /\ StoresIdle /\ PassIdle
    /\ planner \in { [scan |-> s, policy |-> None, out |-> NoPlan] :
                        s \in SeqsUpTo(PlanVideos, MaxScan) }
    /\ commit_log = <<>>
    /\ exec = NoExec
    /\ dv = NoCalls
    /\ scanner = NoScan /\ dcache = NoCache /\ boot = NoBoot

UnchangedByPlan ==
    UNCHANGED << channels, playlists, config, upstream, channel_history,
                 channel_history_file, download_history, last_download,
                 resume_state, files, pc, first_pass, videos_per_channel,
                 next_source, all_download_tasks, jobs, scan_log, pass_stats,
                 pass_log, commit_log, exec, resume_state_file, succeeded, failures, dv,
                 scanner, dcache, boot >>

PlanChannelAuto ==
    /\ planner.policy = None
    /\ ~ is_first_run
    /\ planner' = [planner EXCEPT !.policy = "channel_auto",
                       !.out = process_channel_auto("h1", "A", planner.scan)]
    /\ UnchangedByPlan

PlanPlaylistAuto ==
    /\ planner.policy = None
    /\ ~ is_first_run
    /\ planner' = [planner EXCEPT !.policy = "playlist_auto",
                       !.out = process_playlist_auto("p1", "P", planner.scan)]
    /\ UnchangedByPlan

PlanFirstRun ==
    /\ planner.policy = None
    /\ is_first_run
    /\ planner' = [planner EXCEPT !.policy = "first_run",
                       !.out = process_channel_first_run("h1", "A", planner.scan)]
    /\ UnchangedByPlan

NextPlan == PlanChannelAuto \/ PlanPlaylistAuto \/ PlanFirstRun

SpecPlan == InitPlan /\ [][NextPlan]_vars

----------------------------------------------------------------------------
(* Feed scanner *)

ScanOutcomes == {"ok", "timeout", "failed"}

\* what one scan meets: the outcome of each flat-listing attempt, whether the
\* one-item-at-a-time queries of the fallback answer, and which of them runs
\* into its timeout (0: none)
ScanEnvs == [attempts : [1..MaxRetries -> ScanOutcomes], fallback : BOOLEAN,
             hangs : {0}]

QuietEnv == [attempts |-> [i \in 1..MaxRetries |-> "ok"], fallback |-> TRUE,
             hangs |-> 0]

\* A line of the tool's output is the record of one item, or text that is no
\* record: text json.loads rejects (JSONDecodeError), or JSON text that is no
\* object (null, a number, a string, a list), which json.loads returns and on
\* which data.get of line 820 raises AttributeError.  In the output of a
\* one-item query both are lines with fewer than two tab-separated parts.
NotJson == [text |-> "not json"]
NotAnObject == [text |-> "null"]

is_record(line) == "id" \in DOMAIN line

\* an output in which a line that is JSON and no object follows the first line
with_stray_line(lines) ==
    IF lines = <<>> THEN << NotAnObject >>
    ELSE << Head(lines), NotAnObject >> \o Tail(lines)

\* subprocess.run of the flat listing: the tool lists the first max_videos items
\* of a url it knows and exits nonzero on any other url; on a "noisy" attempt
\* its output holds a stray line
yt_dlp_flat(url, max_videos, outcome) ==
    IF outcome = "timeout" THEN [status |-> "timeout", stdout |-> <<>>]
    ELSE IF outcome = "failed" \/ url \notin DOMAIN upstream
         THEN [status |-> "failed", stdout |-> <<>>]
    ELSE IF outcome = "noisy"
         THEN [status |-> "ok", stdout |-> with_stray_line(Take(upstream[url], max_videos))]
    ELSE [status |-> "ok", stdout |-> Take(upstream[url], max_videos)]

\* the loop of lines 816-839 over the lines of one output; videos is the list
\* of line 788, which the attempts of one scan share.  The loop ends at the
\* first line on which line 820 raises
parse_lines(lines, videos) ==
    LET raising == { i \in DOMAIN lines :
                        ~ is_record(lines[i]) /\ lines[i] # NotJson }
        read == IF raising = {} THEN Len(lines)
                ELSE (CHOOSE i \in raising : \A j \in raising : i <= j) - 1
    IN  [videos |-> videos \o SelectSeq(SubSeq(lines, 1, read), is_record),
         raised |-> raising # {}]

\* the loop of lines 890-932; items counts the queries issued.  A query that
\* runs into its timeout ends the loop (line 932); one that exits nonzero, or
\* prints nothing or fewer than two parts, is passed over
fallback_loop(url, max_videos, env) ==
    LET hung == env.hangs \in 1..max_videos
        read == IF hung THEN env.hangs - 1 ELSE max_videos
        printed == IF env.fallback /\ url \in DOMAIN upstream
                   THEN Take(upstream[url], read) ELSE <<>>
    IN  [videos |-> SelectSeq(printed, is_record),
         items |-> IF hung THEN env.hangs
                   ELSE IF max_videos < 0 THEN 0 ELSE max_videos]

_fallback_recent_videos(url, limit, env) ==
    LET max_videos == IF is_first_run THEN limit ELSE Min(limit, FallbackCeiling)
    IN  fallback_loop(url, max_videos, env)

\* a fallback entered at the first nonzero exit
fallback_due_at_once(attempt) == TRUE

\* line 866: the attempt that failed was the last one
fallback_due(attempt) == attempt = config.max_retries - 1

\* the loop of lines 789-878 from attempt on, and line 880.  log holds, in
\* order, "query" for each subprocess.run of the flat listing, "sleep" for each
\* time.sleep(retry_delay) and "fallback" for the call of line 867
RECURSIVE scan_attempt(_, _, _, _, _, _)
scan_attempt(url, max_videos, env, attempt, videos, log) ==
    IF attempt >= config.max_retries
    THEN [videos |-> <<>>, log |-> log, items |-> 0]
    ELSE LET r == yt_dlp_flat(url, max_videos, env.attempts[attempt + 1])
             asked == Append(log, "query")
             slept == IF attempt < config.max_retries - 1
                      THEN Append(asked, "sleep") ELSE asked
             parsed == parse_lines(r.stdout, videos)
             fell == _fallback_recent_videos(url, max_videos, env)
         IN  IF r.status = "ok"
             THEN IF r.stdout = <<>>
                  THEN [videos |-> <<>>, log |-> asked, items |-> 0]
                  ELSE IF parsed.raised
                  THEN scan_attempt(url, max_videos, env, attempt + 1,
                                    parsed.videos, slept)
                  ELSE [videos |-> parsed.videos, log |-> asked, items |-> 0]
             ELSE IF r.status = "timeout"
                  THEN scan_attempt(url, max_videos, env, attempt + 1, videos, slept)
             ELSE IF fallback_due(attempt)
                  THEN [videos |-> fell.videos, log |-> Append(asked, "fallback"),
                        items |-> fell.items]
             ELSE scan_attempt(url, max_videos, env, attempt + 1, videos, slept)

get_all_recent_videos(url, max_videos, env) ==
    scan_attempt(url, max_videos, env, 0, <<>>, <<>>).videos

\* the prompt of lines 1589-1602 gave no number: stdin is no terminal, or the
\* entry is empty or no number
NoEntry == -1

\* a depth that ignores max_videos_per_channel
channel_check_limit_gap_only(handle, typed) ==
    LET check_limit == config.gap_check_limit
        is_new_channel == handle \notin DOMAIN channel_history.channels
        default_limit == IF is_new_channel THEN config.initial_videos_per_channel
                         ELSE check_limit
    IN  IF is_new_channel \/ config.ask_video_limit_per_channel
        THEN IF typed = NoEntry THEN default_limit ELSE typed
        ELSE check_limit

\* the scan depth of process_channel_auto; typed is the number entered at the
\* prompt, or NoEntry
channel_check_limit(handle, typed) ==
    LET check_limit == IF config.max_videos_per_channel > config.gap_check_limit
                       THEN config.max_videos_per_channel
                       ELSE config.gap_check_limit
        is_new_channel == handle \notin DOMAIN channel_history.channels
        default_limit == IF is_new_channel THEN config.initial_videos_per_channel
                         ELSE check_limit
    IN  IF is_new_channel \/ config.ask_video_limit_per_channel
        THEN IF typed = NoEntry THEN default_limit ELSE typed
        ELSE check_limit

----------------------------------------------------------------------------
(* The pass: run_auto_download *)

Sources ==
    [i \in 1..Len(channels) |-> [key |-> channels[i].key, name |-> channels[i].name,
                                  kind |-> "channel"]]
    \o
    [i \in 1..Len(playlists) |-> [key |-> playlists[i].key, name |-> playlists[i].name,
                                   kind |-> "playlist"]]

UnchangedSources == UNCHANGED << channels, playlists, config, upstream >>
UnchangedSubSpecs ==
    UNCHANGED << planner, commit_log, exec, resume_state_file, succeeded, failures, dv,
                 scanner, dcache, boot >>

StartPass ==
    /\ pc = "idle"
    /\ Len(pass_log) < MaxPasses
    /\ first_pass' = is_first_run
    /\ IF is_first_run
       THEN \E k \in 0..MaxLimit :
               videos_per_channel' = k
       ELSE videos_per_channel' = 0
    /\ next_source' = 1
    /\ all_download_tasks' = <<>>
    /\ jobs' = <<>>
    /\ scan_log' = EmptyMap
    /\ pass_stats' = [NoStats EXCEPT !.first_run = is_first_run]
    /\ pc' = IF is_first_run THEN "first_run_scan" ELSE "auto_scan"
    /\ UNCHANGED << channel_history, channel_history_file, download_history,
                    last_download, resume_state, files, pass_log >>
    /\ UnchangedSources /\ UnchangedSubSpecs

\* a pass that gives up its remaining sources at the first empty scan
Planned_until_empty(src, limit, env, recent_videos, plan) ==
    /\ all_download_tasks' = all_download_tasks \o plan.download_tasks
    /\ scan_log' = scan_log @@
          (src.key :> [limit |-> limit, recent_videos |-> recent_videos,
                       shorts_skipped |-> plan.shorts_skipped,
                       already_downloaded_count |-> plan.already_downloaded_count])
    /\ pass_stats' = [pass_stats EXCEPT !.quiet = @ /\ env = QuietEnv]
    /\ next_source' = IF recent_videos = <<>> THEN Len(channels) + Len(playlists) + 1
                      ELSE next_source + 1

\* a pass that puts the tasks of a source in front of the earlier ones
Planned_in_front(src, limit, env, recent_videos, plan) ==
    /\ all_download_tasks' = plan.download_tasks \o all_download_tasks
    /\ scan_log' = scan_log @@
          (src.key :> [limit |-> limit, recent_videos |-> recent_videos,
                       shorts_skipped |-> plan.shorts_skipped,
                       already_downloaded_count |-> plan.already_downloaded_count])
    /\ pass_stats' = [pass_stats EXCEPT !.quiet = @ /\ env = QuietEnv]
    /\ next_source' = next_source + 1

\* what the scan and the planner of one source leave behind
Planned(src, limit, env, recent_videos, plan) ==
    /\ all_download_tasks' = all_download_tasks \o plan.download_tasks
    /\ scan_log' = scan_log @@
          (src.key :> [limit |-> limit, recent_videos |-> recent_videos,
                       shorts_skipped |-> plan.shorts_skipped,
                       already_downloaded_count |-> plan.already_downloaded_count])
    /\ pass_stats' = [pass_stats EXCEPT !.quiet = @ /\ env = QuietEnv]
    /\ next_source' = next_source + 1

\* lines 1959-1970: every source, playlists too, goes through process_channel_first_run
FirstRunSource ==
    /\ pc = "first_run_scan"
    /\ next_source <= Len(Sources)
    /\ LET src == Sources[next_source]
       IN  IF videos_per_channel = 0
           THEN Planned(src, 0, QuietEnv, <<>>, NoPlan)
           ELSE \E env \in ScanEnvs :
                  LET recent_videos == get_all_recent_videos(ChannelUrl(src.key),
                                                             videos_per_channel, env)
                  IN  Planned(src, videos_per_channel, env, recent_videos,
                              process_channel_first_run(src.key, src.name, recent_videos))
    /\ UNCHANGED << channel_history, channel_history_file, download_history,
                    last_download, resume_state, files, pc, first_pass,
                    videos_per_channel, jobs, pass_log >>
    /\ UnchangedSources /\ UnchangedSubSpecs

\* line 1974, before download_videos_parallel is called
MarkFirstRun ==
    /\ pc = "first_run_scan"
    /\ next_source > Len(Sources)
    /\ mark_first_run_completed
    /\ pc' = "download"
    /\ UNCHANGED << download_history, last_download, resume_state, files, first_pass,
                    videos_per_channel, next_source, all_download_tasks, jobs,
                    scan_log, pass_stats, pass_log >>
    /\ UnchangedSources /\ UnchangedSubSpecs

\* lines 1981-1993
AutoSource ==
    /\ pc = "auto_scan"
    /\ next_source <= Len(Sources)
    /\ LET src == Sources[next_source]
       IN  \E env \in ScanEnvs :
             IF src.kind = "channel"
             THEN \E typed \in {NoEntry} \cup (0..MaxLimit) :
                    LET limit == channel_check_limit(src.key, typed)
                        recent_videos == get_all_recent_videos(ChannelUrl(src.key),
                                                               limit, env)
                    IN  Planned(src, limit, env, recent_videos,
                                process_channel_auto(src.key, src.name, recent_videos))
             ELSE LET limit == config.max_videos_per_channel
                      recent_videos == get_all_recent_videos(src.key, limit, env)
                  IN  Planned(src, limit, env, recent_videos,
                              process_playlist_auto(src.key, src.name, recent_videos))
    /\ UNCHANGED << channel_history, channel_history_file, download_history,
                    last_download, resume_state, files, pc, first_pass,
                    videos_per_channel, jobs, pass_log >>
    /\ UnchangedSources /\ UnchangedSubSpecs

AutoScanDone ==
    /\ pc = "auto_scan"
    /\ next_source > Len(Sources)
    /\ pc' = "download"
    /\ UNCHANGED << channel_history, channel_history_file, download_history,
                    last_download, resume_state, files, first_pass,
                    videos_per_channel, next_source, all_download_tasks, jobs,
                    scan_log, pass_stats, pass_log >>
    /\ UnchangedSources /\ UnchangedSubSpecs

----------------------------------------------------------------------------
(* The pool: download_videos_parallel and download_video *)

QueuedJob == [st |-> "queued", attempt |-> 0, has_subtitles |-> FALSE,
              resume |-> FALSE, success |-> FALSE, runs |-> 0]   \* runs: worker pick-ups

Running == { i \in DOMAIN jobs : jobs[i].st = "running" }

\* lines 1838 and 1862-1881: nothing to do, or one future per task
Submit ==
    /\ pc = "download"
    /\ IF all_download_tasks = <<>>
       THEN /\ pc' = "summary"
            /\ UNCHANGED jobs
       ELSE /\ pc' = "collect"
            /\ jobs' = [i \in 1..Len(all_download_tasks) |-> QueuedJob]
    /\ UNCHANGED << channel_history, channel_history_file, download_history,
                    last_download, resume_state, files, first_pass,
                    videos_per_channel, next_source, all_download_tasks,
                    scan_log, pass_stats, pass_log >>
    /\ UnchangedSources /\ UnchangedSubSpecs

\* a pool that starts a queued future whenever one is queued
WorkerAlwaysFree == TRUE

\* a pool none of whose threads ever takes a future
WorkerNeverFree == FALSE

\* a pool thread is free when fewer than max_workers futures are running
WorkerFree == Cardinality(Running) < config.max_parallel_downloads

\* download_video up to the first launch: lines 1350-1403 and 1413-1414
JobStart(i) ==
    /\ pc = "collect"
    /\ jobs[i].st = "queued"
    /\ \A j \in 1..(i - 1) : jobs[j].st # "queued"
    /\ WorkerFree
    /\ LET video_id == all_download_tasks[i].video_info.id
           existing == check_existing_download(video_id)
           resume == is_resumable(existing, video_id \in DOMAIN resume_state)
       IN  /\ \E has_subtitles \in BOOLEAN :
                jobs' = [jobs EXCEPT ![i] = [QueuedJob EXCEPT
                            !.st = "running", !.attempt = 1,
                            !.has_subtitles = has_subtitles,
                            !.resume = resume, !.runs = jobs[i].runs + 1]]
           /\ IF resume
              THEN update_resume_state(video_id, existing.progress)
              ELSE UNCHANGED << resume_state, resume_state_file >>
    /\ pass_stats' = [pass_stats EXCEPT !.started = TRUE]
    /\ UNCHANGED << channel_history, channel_history_file, download_history,
                    last_download, files, pc, first_pass, videos_per_channel,
                    next_source, all_download_tasks, scan_log, pass_log >>
    /\ UnchangedSources
    /\ UNCHANGED << planner, commit_log, exec, succeeded, failures, dv,
                 scanner, dcache, boot >>

\* how a launched process ends: exit 0 with a clean stderr; a failure whose
\* stderr names subtitles or 429, before any data was written; any other
\* failure, which leaves a partial artifact behind; a failure after which the
\* print of line 1437 raises (a stdout that is closed or cannot encode the text)
ExitOutcomes == {"ok", "subtitle_error", "error", "raised"}

\* the launched process exits: lines 1403-1441
ProcessExit(i) ==
    /\ pc = "collect"
    /\ jobs[i].st = "running"
    /\ \E outcome \in ExitOutcomes :
         LET video_id == all_download_tasks[i].video_info.id
             success == outcome = "ok"
         IN  IF retry_without_subtitles(success, jobs[i].has_subtitles,
                                        jobs[i].attempt, outcome)
             THEN \* line 1405: once more, with skip_subs
                  /\ jobs' = [jobs EXCEPT ![i].attempt = 2]
                  /\ UNCHANGED << last_download, resume_state, resume_state_file,
                                  files, pass_stats, succeeded, failures >>
             ELSE /\ jobs' = [jobs EXCEPT ![i] = [QueuedJob EXCEPT
                                 !.st = IF outcome = "raised" THEN "raised" ELSE "done",
                                 !.success = success,
                                 !.runs = jobs[i].runs]]
                  /\ IF success
                     THEN /\ last_download' = video_id
                          /\ clear_resume_state(video_id)
                          /\ files' = put_entry(files, video_id, "large")
                          /\ succeeded' = succeeded \cup
                                {[id |-> video_id, pass |-> Len(pass_log) + 1]}
                          /\ UNCHANGED << pass_stats, failures >>
                     ELSE /\ files' = IF outcome = "error"
                                      THEN put_entry(files, video_id, "large")
                                      ELSE files
                          /\ pass_stats' = [pass_stats EXCEPT !.failed = TRUE]
                          /\ failures' = failures \cup
                                {[id |-> video_id, key |-> all_download_tasks[i].key]}
                          /\ UNCHANGED << last_download, resume_state,
                                          resume_state_file, succeeded >>
    /\ UNCHANGED << channel_history, channel_history_file, download_history, pc,
                    first_pass, videos_per_channel, next_source,
                    all_download_tasks, scan_log, pass_log >>
    /\ UnchangedSources
    /\ UNCHANGED << planner, commit_log, exec, dv, scanner, dcache, boot >>

\* [k for k, v in self.channels.items() if v == source_name]
KeysNamed(dict, source_name) ==
    SelectSeq([i \in 1..Len(dict) |-> IF dict[i].name = source_name
                                       THEN dict[i].key ELSE None],
              LAMBDA k : k # None)

\* the key a finished task is committed under: lines 1891-1897; None when the
\* list is empty and [0] raises IndexError
CommitKey(task) ==
    LET named == IF task.task_type = "channel"
                 THEN KeysNamed(channels, task.source_name)
                 ELSE KeysNamed(playlists, task.source_name)
    IN  IF named = <<>> THEN None ELSE named[1]

\* a commit made for every finished job that has a key
should_commit_any(success, key) == key # None

\* line 1887, and the lookups of lines 1892 and 1896 finding the key
should_commit(success, key) == success /\ key # None

\* an exception that leaves the as_completed loop
after_exception_propagated == "summary"

\* line 1908: the exception of one future is caught inside the loop
after_exception == "collect"

\* the body of the as_completed loop for one finished future: lines 1884-1909
Collect(i) ==
    /\ pc = "collect"
    /\ jobs[i].st \in {"done", "raised"}
    /\ jobs' = [jobs EXCEPT ![i].st = "collected"]
    /\ LET task == all_download_tasks[i]
           key == CommitKey(task)
           raises == jobs[i].st = "raised" \/ (jobs[i].success /\ key = None)
       IN  /\ pc' = IF raises THEN after_exception ELSE pc
           /\ IF jobs[i].st = "done" /\ should_commit(jobs[i].success, key)
              THEN /\ update_channel_history(key, task.video_info)
                   /\ download_history' =
                         [k \in DOMAIN download_history \cup {key} |->
                             IF k = key THEN task.video_info.id ELSE download_history[k]]
                   /\ pass_stats' = [pass_stats EXCEPT !.appended =
                         @ \/ task.video_info.id \notin Range(downloaded_videos(key))]
              ELSE UNCHANGED << channel_history, channel_history_file,
                                download_history, pass_stats >>
    /\ UNCHANGED << last_download, resume_state, files, first_pass,
                    videos_per_channel, next_source, all_download_tasks,
                    scan_log, pass_log >>
    /\ UnchangedSources /\ UnchangedSubSpecs

\* as_completed is exhausted: download_videos_parallel returns
DownloadsDone ==
    /\ pc = "collect"
    /\ \A i \in DOMAIN jobs : jobs[i].st = "collected"
    /\ pc' = "summary"
    /\ UNCHANGED << channel_history, channel_history_file, download_history,
                    last_download, resume_state, files, first_pass,
                    videos_per_channel, next_source, all_download_tasks, jobs,
                    scan_log, pass_stats, pass_log >>
    /\ UnchangedSources /\ UnchangedSubSpecs

\* lines 1997-2033: the summary; the pass is over
EndPass ==
    /\ pc = "summary"
    /\ pass_log' = Append(pass_log, pass_stats)
    /\ pc' = "idle"
    /\ UNCHANGED << channel_history, channel_history_file, download_history,
                    last_download, resume_state, files, first_pass,
                    videos_per_channel, next_source, all_download_tasks, jobs,
                    scan_log, pass_stats >>
    /\ UnchangedSources /\ UnchangedSubSpecs

\* the process dies during a pass and is started again: __init__ loads the
\* stores from their files (lines 219-222); what was only in memory is gone.
\* download_history and last_download are written as they change, so their
\* files hold what memory held
Crash ==
    /\ pc # "idle"
    /\ channel_history' = channel_history_file
    /\ resume_state' = load_resume_state(resume_state_file)
    /\ resume_state_file' = ResumeFile(resume_state')
    /\ pass_log' = Append(pass_log, [pass_stats EXCEPT !.crashed = TRUE])
    /\ pc' = "idle"
    /\ first_pass' = FALSE
    /\ videos_per_channel' = 0
    /\ next_source' = 1
    /\ all_download_tasks' = <<>>
    /\ jobs' = <<>>
    /\ scan_log' = EmptyMap
    /\ pass_stats' = NoStats
    /\ UNCHANGED << channel_history_file, download_history, last_download, files >>
    /\ UnchangedSources
    /\ UNCHANGED << planner, commit_log, exec, succeeded, failures, dv,
                 scanner, dcache, boot >>

----------------------------------------------------------------------------
(* Spec: passes of run_auto_download over a fixed upstream *)

Listings ==
    (ChannelUrl("h1") :> << Video("v3"), Video("v1") >>) @@
    (ChannelUrl("h2") :> << Video("v5") >>) @@
    ("p1" :> << Video("v6") >>)

Init ==
    /\ channels \in { << [key |-> "h1", name |-> "A"], [key |-> "h2", name |-> n] >> :
                         n \in {"A", "B"} }
    /\ playlists = << [key |-> "p1", name |-> "P"] >>
    /\ config \in { [DefaultConfig EXCEPT !.filter_shorts = f,
                                          !.max_parallel_downloads = w] :
                       f \in BOOLEAN, w \in 1..PassParallel }
    /\ upstream = Listings
    /\ channel_history = FreshHistory
    /\ channel_history_file = FreshHistory
    /\ StoresIdle /\ PassIdle
    /\ planner = NoPlanner
    /\ commit_log = <<>>
    /\ exec = NoExec
    /\ dv = NoCalls
    /\ scanner = NoScan /\ dcache = NoCache /\ boot = NoBoot

Next ==
    \/ StartPass
    \/ FirstRunSource
    \/ MarkFirstRun
    \/ AutoSource
    \/ AutoScanDone
    \/ Submit
    \/ \E i \in DOMAIN jobs : JobStart(i)
    \/ \E i \in DOMAIN jobs : ProcessExit(i)
    \/ \E i \in DOMAIN jobs : Collect(i)
    \/ DownloadsDone
    \/ EndPass

Spec == Init /\ [][Next]_vars

----------------------------------------------------------------------------
(* SpecSched: download_videos_parallel on NumSchedTasks tasks of one channel *)

SchedIds == << "v1", "v3", "v4", "v6", "v2", "v5" >>

\* the pool sizes tried
SchedPools == {1, 2}

SchedTasks == [i \in 1..NumSchedTasks |-> Task(Video(SchedIds[i]), "A", "channel", "h1")]

InitSched ==
    /\ channels = << [key |-> "h1", name |-> "A"] >>
    /\ playlists = << [key |-> "p1", name |-> "P"] >>
    /\ upstream = EmptyMap
    /\ config \in { [DefaultConfig EXCEPT !.max_parallel_downloads = w] : w \in SchedPools }
    /\ channel_history = [FreshHistory EXCEPT !.first_run_completed = TRUE]
    /\ channel_history_file = channel_history
    /\ StoresIdle
    /\ pc = "download"
    /\ first_pass = FALSE
    /\ videos_per_channel = 0
    /\ next_source = 1
    /\ all_download_tasks = SchedTasks
    /\ jobs = <<>>
    /\ scan_log = EmptyMap
    /\ pass_stats = NoStats
    /\ pass_log = <<>>
    /\ planner = NoPlanner
    /\ commit_log = <<>>
    /\ exec = NoExec
    /\ dv = NoCalls
    /\ scanner = NoScan /\ dcache = NoCache /\ boot = NoBoot

NextSched ==
    \/ Submit
    \/ \E i \in DOMAIN jobs : JobStart(i)
    \/ \E i \in DOMAIN jobs : ProcessExit(i)
    \/ \E i \in DOMAIN jobs : Collect(i)
    \/ DownloadsDone

SpecSched == InitSched /\ [][NextSched]_vars

----------------------------------------------------------------------------
(* SpecShared: passes over a channel and a playlist that list the same video *)

SharedListings ==
    (ChannelUrl("h1") :> << Video("v1") >>) @@
    ("p1" :> << Video("v1") >>)

InitShared ==
    /\ channels = << [key |-> "h1", name |-> "A"] >>
    /\ playlists = << [key |-> "p1", name |-> "P"] >>
    /\ config \in { [DefaultConfig EXCEPT !.max_parallel_downloads = w] :
                       w \in SchedPools }
    /\ upstream = SharedListings
    /\ channel_history \in { [FreshHistory EXCEPT !.first_run_completed = f] :
                                f \in BOOLEAN }
    /\ channel_history_file = channel_history
    /\ StoresIdle /\ PassIdle
    /\ planner = NoPlanner
    /\ commit_log = <<>>
    /\ exec = NoExec
    /\ dv = NoCalls
    /\ scanner = NoScan /\ dcache = NoCache /\ boot = NoBoot

SpecShared == InitShared /\ [][Next]_vars

----------------------------------------------------------------------------
(* SpecLive: the passes of SpecShared under the scheduling the code relies on: *)
(* the thread of run_auto_download and the pool threads keep running, and     *)
(* every process that was launched exits.  PassStep is any step of a pass      *)
(* that has started; when the next pass is started is left open               *)

PassStep ==
    \/ FirstRunSource
    \/ MarkFirstRun
    \/ AutoSource
    \/ AutoScanDone
    \/ Submit
    \/ \E i \in DOMAIN jobs : JobStart(i)
    \/ \E i \in DOMAIN jobs : ProcessExit(i)
    \/ \E i \in DOMAIN jobs : Collect(i)
    \/ DownloadsDone
    \/ EndPass

SpecLive == InitShared /\ [][Next]_vars /\ WF_vars(PassStep)

----------------------------------------------------------------------------
(* SpecCrash: passes over one channel, the process dying at any point of a  *)
(* pass and being started again                                              *)

CrashListings == ChannelUrl("h1") :> << Video("v3"), Video("v1") >>

InitCrash ==
    /\ channels = << [key |-> "h1", name |-> "A"] >>
    /\ playlists = << >>
    /\ config = DefaultConfig
    /\ upstream = CrashListings
    /\ channel_history = FreshHistory
    /\ channel_history_file = FreshHistory
    /\ StoresIdle /\ PassIdle
    /\ planner = NoPlanner
    /\ commit_log = <<>>
    /\ exec = NoExec
    /\ dv = NoCalls
    /\ scanner = NoScan /\ dcache = NoCache /\ boot = NoBoot

NextCrash ==
    \/ StartPass
    \/ FirstRunSource
    \/ MarkFirstRun
    \/ AutoSource
    \/ AutoScanDone
    \/ Submit
    \/ \E i \in DOMAIN jobs : JobStart(i)
    \/ \E i \in DOMAIN jobs : ProcessExit(i)
    \/ \E i \in DOMAIN jobs : Collect(i)
    \/ DownloadsDone
    \/ EndPass
    \/ Crash

SpecCrash == InitCrash /\ [][NextCrash]_vars

----------------------------------------------------------------------------
(* SpecJob: the download_video calls of one pool, thread by thread.  Every   *)
(* call runs on a pool thread (executor.submit, line 1873); the steps are    *)
(* those between which another thread can run.  save_resume_state is two     *)
(* steps: open(path, 'w') truncates the file and json.dump fills the buffer  *)
(* of the file object; leaving the with block flushes the buffer at offset 0 *)

\* the videos of the calls submitted to the pool, in order
CallIds == << "v1", "v3" >>

\* the pool sizes tried
CallPools == {1, 2}

\* get_resume_state returns None when there is no entry
NoResumeEntry == [progress |-> NoEntry, expired |-> FALSE]

get_resume_state(video_id) ==
    IF video_id \in DOMAIN resume_state THEN resume_state[video_id] ELSE NoResumeEntry

\* the entries a started process can hold: loaded or written in this process
LoadedEntries == { [progress |-> 50, expired |-> e] : e \in BOOLEAN }

QueuedCall(video_id) ==
    [pc |-> "queued", video_id |-> video_id,
     artifact |-> None,            \* the local artifact when the call began
     entry0 |-> NoResumeEntry,     \* the Resume entry when the call began
     resume |-> FALSE, progress |-> 0, has_subtitles |-> FALSE,
     launches |-> <<>>,            \* the download processes started, in order
     put_saved |-> FALSE,          \* update_resume_state has returned
     buf |-> EmptyMap,             \* what json.dump put into the file object
     after |-> None]               \* where the call goes on after the save

InitJob ==
    /\ channels = << [key |-> "h1", name |-> "A"] >>
    /\ playlists = << [key |-> "p1", name |-> "P"] >>
    /\ upstream = EmptyMap
    /\ config \in { [DefaultConfig EXCEPT !.max_parallel_downloads = w] : w \in CallPools }
    /\ channel_history = [FreshHistory EXCEPT !.first_run_completed = TRUE]
    /\ channel_history_file = channel_history
    /\ download_history = EmptyMap
    /\ last_download = None
    /\ \E S \in SUBSET Range(CallIds) :
          files \in [S -> {"small", "large"}]
    /\ \E S \in SUBSET Range(CallIds) :
          resume_state \in [S -> LoadedEntries]
    /\ resume_state_file = ResumeFile(resume_state)
    /\ succeeded = {}
    /\ failures = {}
    /\ PassIdle
    /\ planner = NoPlanner
    /\ commit_log = <<>>
    /\ exec = NoExec
    /\ dv = [thr |-> [i \in DOMAIN CallIds |-> QueuedCall(CallIds[i])], restarted |-> FALSE]
    /\ scanner = NoScan /\ dcache = NoCache /\ boot = NoBoot

UnchangedByJob ==
    UNCHANGED << channels, playlists, config, upstream, channel_history,
                 channel_history_file, download_history, last_download, pc,
                 first_pass, videos_per_channel, next_source, all_download_tasks,
                 jobs, scan_log, pass_stats, pass_log, planner, commit_log, exec,
                 succeeded, failures, scanner, dcache, boot >>

ActiveCalls == { i \in DOMAIN dv.thr : dv.thr[i].pc \notin {"queued", "succeeded", "failed"} }

\* lines 1350-1387: a pool thread picks the call up and decides whether to resume
DvBegin(i) ==
    /\ ~ dv.restarted
    /\ dv.thr[i].pc = "queued"
    /\ \A j \in 1..(i - 1) : dv.thr[j].pc # "queued"
    /\ Cardinality(ActiveCalls) < config.max_parallel_downloads
    /\ LET video_id == dv.thr[i].video_id
           existing == check_existing_download(video_id)
           entry == get_resume_state(video_id)
           resume == is_resumable(existing, entry # NoResumeEntry)
       IN  \E has_subtitles \in BOOLEAN :
              dv' = [dv EXCEPT !.thr[i] = [@ EXCEPT
                        !.pc = IF resume THEN "put" ELSE "launch",
                        !.artifact = IF video_id \in DOMAIN files
                                     THEN files[video_id] ELSE None,
                        !.entry0 = entry,
                        !.resume = resume,
                        !.progress = existing.progress,
                        !.has_subtitles = has_subtitles]]
    /\ UNCHANGED << resume_state, resume_state_file, files >>
    /\ UnchangedByJob

\* lines 1390-1397 and 470-474: the entry is put into the store in memory
DvPut(i) ==
    /\ ~ dv.restarted
    /\ dv.thr[i].pc = "put"
    /\ resume_state' = put_entry(resume_state, dv.thr[i].video_id,
                                 ResumeEntry(dv.thr[i].progress))
    /\ dv' = [dv EXCEPT !.thr[i].pc = "save_open", !.thr[i].after = "launch"]
    /\ UNCHANGED << resume_state_file, files >>
    /\ UnchangedByJob

\* lines 432-433: the file is truncated and the store is serialised
SaveOpen(i) ==
    /\ ~ dv.restarted
    /\ dv.thr[i].pc = "save_open"
    /\ resume_state_file' = [state |-> "empty", videos |-> EmptyMap, len |-> 0]
    /\ dv' = [dv EXCEPT !.thr[i].pc = "save_close", !.thr[i].buf = resume_state]
    /\ UNCHANGED << resume_state, files >>
    /\ UnchangedByJob

\* the text a file holds after buf was written at offset 0: buf itself when
\* it covers what was there, otherwise buf followed by the tail of the older text
flushed(file, buf) ==
    IF file.state = "ok" /\ file.videos = buf
    THEN file
    ELSE IF Cardinality(DOMAIN buf) >= file.len
         THEN ResumeFile(buf)
         ELSE [state |-> "malformed", videos |-> EmptyMap, len |-> file.len]

\* line 433, end of the with block: the buffer reaches the file
SaveClose(i) ==
    /\ ~ dv.restarted
    /\ dv.thr[i].pc = "save_close"
    /\ resume_state_file' = flushed(resume_state_file, dv.thr[i].buf)
    /\ dv' = [dv EXCEPT !.thr[i] = [@ EXCEPT
                 !.pc = dv.thr[i].after,
                 !.put_saved = @ \/ dv.thr[i].after = "launch",
                 !.buf = EmptyMap,
                 !.after = None]]
    /\ UNCHANGED << resume_state, files >>
    /\ UnchangedByJob

\* build_download_command: the flags that depend on the call
build_download_command(skip_subs, resume) ==
    [skip_subs |-> skip_subs, continue |-> resume]

\* lines 1402-1403, 1408-1409 and 1413-1414: a download process is started
DvLaunch(i) ==
    /\ ~ dv.restarted
    /\ dv.thr[i].pc = "launch"
    /\ LET skip_subs == ~ dv.thr[i].has_subtitles \/ Len(dv.thr[i].launches) = 1
           cmd == build_download_command(skip_subs, dv.thr[i].resume)
       IN  dv' = [dv EXCEPT !.thr[i] = [@ EXCEPT
                     !.pc = "running",
                     !.launches = Append(@, [cmd |-> cmd, outcome |-> "running",
                                              put_saved |-> dv.thr[i].put_saved])]]
    /\ UNCHANGED << resume_state, resume_state_file, files >>
    /\ UnchangedByJob

\* the process exits and _execute_download returns: lines 1403-1441
DvExit(i) ==
    /\ ~ dv.restarted
    /\ dv.thr[i].pc = "running"
    /\ \E outcome \in ExitOutcomes :
         LET success == outcome = "ok"
             n == Len(dv.thr[i].launches)
             retry == retry_without_subtitles(success, dv.thr[i].has_subtitles,
                                              n, outcome)
         IN  /\ dv' = [dv EXCEPT !.thr[i] = [@ EXCEPT
                         !.pc = IF retry THEN "launch"
                                ELSE IF success THEN "clear" ELSE "failed",
                         !.launches[n].outcome = outcome]]
             /\ files' = IF outcome \in {"ok", "error"}
                         THEN put_entry(files, dv.thr[i].video_id, "large")
                         ELSE files
    /\ UNCHANGED << resume_state, resume_state_file >>
    /\ UnchangedByJob

\* lines 1433 and 499-500: the entry is deleted from the store in memory
DvClear(i) ==
    /\ ~ dv.restarted
    /\ dv.thr[i].pc = "clear"
    /\ resume_state' = del_entry(resume_state, dv.thr[i].video_id)
    /\ dv' = [dv EXCEPT !.thr[i].pc = "save_open", !.thr[i].after = "succeeded"]
    /\ UNCHANGED << resume_state_file, files >>
    /\ UnchangedByJob

\* the process dies and is started again: load_resume_state, lines 404-428;
\* the calls stay where they were
Restart ==
    /\ ~ dv.restarted
    /\ resume_state' = load_resume_state(resume_state_file)
    /\ resume_state_file' = IF resume_state_file.state = "ok"
                               /\ resume_state' = resume_state_file.videos
                            THEN resume_state_file
                            ELSE ResumeFile(resume_state')
    /\ dv' = [dv EXCEPT !.restarted = TRUE]
    /\ UNCHANGED files
    /\ UnchangedByJob

NextJob ==
    \/ \E i \in DOMAIN dv.thr : DvBegin(i)
    \/ \E i \in DOMAIN dv.thr : DvPut(i)
    \/ \E i \in DOMAIN dv.thr : SaveOpen(i)
    \/ \E i \in DOMAIN dv.thr : SaveClose(i)
    \/ \E i \in DOMAIN dv.thr : DvLaunch(i)
    \/ \E i \in DOMAIN dv.thr : DvExit(i)
    \/ \E i \in DOMAIN dv.thr : DvClear(i)
    \/ Restart

SpecJob == InitJob /\ [][NextJob]_vars

----------------------------------------------------------------------------
(* SpecScan: one call of get_all_recent_videos, on any listing of ScanListings, *)
(* with any limit of ScanLimits, in a first run or not, whatever the tool does  *)

\* a listing longer than the ceiling of the fallback
LongListing == [i \in 1..(FallbackCeiling + 2) |-> [id |-> ToString(i), duration |-> 100]]

ScanListings ==
    { <<>>,
      << Video("v3"), Video("v1") >>,
      << Video("v3"), NotJson, Video("v1") >>,
      << Video("v3"), NotAnObject, Video("v1") >>,
      LongListing }

ScanLimits == {0, 1, 2, 3, FallbackCeiling + 1}

WideEnvs == [attempts : [1..MaxAttempts -> ScanOutcomes], fallback : BOOLEAN,
             hangs : 0..2]

InitScan ==
    /\ channels = << [key |-> "h1", name |-> "A"] >>
    /\ playlists = << >>
    /\ upstream \in { (ChannelUrl("h1") :> l) : l \in ScanListings }
    /\ config \in { [DefaultConfig EXCEPT !.max_retries = r] : r \in 0..MaxAttempts }
    /\ channel_history \in { [FreshHistory EXCEPT !.first_run_completed = f] :
                                f \in BOOLEAN }
    /\ channel_history_file = channel_history
    /\ StoresIdle /\ PassIdle
    /\ planner = NoPlanner
    /\ commit_log = <<>>
    /\ exec = NoExec
    /\ dv = NoCalls
    /\ scanner = [pc |-> "called"]
    /\ dcache = NoCache /\ boot = NoBoot

\* the call, from line 788 to its return
RunScan ==
    /\ scanner.pc = "called"
    /\ \E max_videos \in ScanLimits, env \in WideEnvs :
          scanner' = [pc |-> "returned", max_videos |-> max_videos, env |-> env,
                      out |-> scan_attempt(ChannelUrl("h1"), max_videos, env,
                                           0, <<>>, <<>>)]
    /\ UNCHANGED << channels, playlists, config, upstream, channel_history,
                    channel_history_file, download_history, last_download,
                    resume_state, resume_state_file, files, pc, first_pass,
                    videos_per_channel, next_source, all_download_tasks, jobs,
                    scan_log, pass_stats, pass_log, planner, commit_log, exec,
                    succeeded, failures, dv, dcache, boot >>

NextScan == RunScan

SpecScan == InitScan /\ [][NextScan]_vars

----------------------------------------------------------------------------
(* SpecAttempts: one call of get_all_recent_videos in which the output of the *)
(* tool can differ from one attempt to the next: an attempt can print a stray *)
(* line that the next attempt does not print                                  *)

NoisyEnvs == [attempts : [1..MaxAttempts -> ScanOutcomes \cup {"noisy"}],
              fallback : BOOLEAN, hangs : {0}]

RunScanNoisy ==
    /\ scanner.pc = "called"
    /\ \E max_videos \in ScanLimits, env \in NoisyEnvs :
          scanner' = [pc |-> "returned", max_videos |-> max_videos, env |-> env,
                      out |-> scan_attempt(ChannelUrl("h1"), max_videos, env,
                                           0, <<>>, <<>>)]
    /\ UNCHANGED << channels, playlists, config, upstream, channel_history,
                    channel_history_file, download_history, last_download,
                    resume_state, resume_state_file, files, pc, first_pass,
                    videos_per_channel, next_source, all_download_tasks, jobs,
                    scan_log, pass_stats, pass_log, planner, commit_log, exec,
                    succeeded, failures, dv, dcache, boot >>

NextAttempts == RunScanNoisy

SpecAttempts == InitScan /\ [][NextAttempts]_vars

----------------------------------------------------------------------------
(* SpecSources: the scans and the planning of one pass over two channels and *)
(* a playlist, first run or not, from a History and a Resume store that may  *)
(* hold entries                                                              *)

InitSources ==
    /\ channels = << [key |-> "h1", name |-> "A"], [key |-> "h2", name |-> "B"] >>
    /\ playlists = << [key |-> "p1", name |-> "P"] >>
    /\ config = DefaultConfig
    /\ upstream = Listings
    /\ channel_history \in
          { FreshHistory,
            [channels |-> ("h1" :> [downloaded_videos |-> << "v1" >>]),
             first_run_completed |-> TRUE] }
    /\ channel_history_file = channel_history
    /\ download_history = EmptyMap
    /\ last_download = None
    /\ resume_state \in { EmptyMap, ("v3" :> ResumeEntry(50)) }
    /\ resume_state_file = ResumeFile(resume_state)
    /\ files = EmptyMap
    /\ succeeded = {}
    /\ failures = {}
    /\ PassIdle
    /\ planner = NoPlanner
    /\ commit_log = <<>>
    /\ exec = NoExec
    /\ dv = NoCalls
    /\ scanner = NoScan /\ dcache = NoCache /\ boot = NoBoot

NextSources ==
    \/ StartPass
    \/ FirstRunSource
    \/ MarkFirstRun
    \/ AutoSource
    \/ AutoScanDone

SpecSources == InitSources /\ [][NextSources]_vars

----------------------------------------------------------------------------
(* SpecOrder: the scans and planners of a pass over longer listings, with a   *)
(* video listed by two sources, a short between two videos and a History that *)
(* holds the middle of a listing                                              *)

OrderListings ==
    (ChannelUrl("h1") :> << Video("v3"), Video("v2"), Video("v1"), Video("v4") >>) @@
    (ChannelUrl("h2") :> << Video("v1"), Video("v6"), Video("v3") >>) @@
    ("p1" :> << Video("v6"), Video("v4"), Video("v3") >>)

OrderHistories ==
    { FreshHistory,
      [channels |-> ("h1" :> [downloaded_videos |-> << "v1" >>]),
       first_run_completed |-> TRUE],
      [channels |-> ("h1" :> [downloaded_videos |-> << "v1" >>]) @@
                    ("h2" :> [downloaded_videos |-> << "v6" >>]) @@
                    ("p1" :> [downloaded_videos |-> << "v4" >>]),
       first_run_completed |-> TRUE] }

InitOrder ==
    /\ channels = << [key |-> "h1", name |-> "A"], [key |-> "h2", name |-> "B"] >>
    /\ playlists = << [key |-> "p1", name |-> "P"] >>
    /\ config = DefaultConfig
    /\ upstream = OrderListings
    /\ channel_history \in OrderHistories
    /\ channel_history_file = channel_history
    /\ StoresIdle /\ PassIdle
    /\ planner = NoPlanner
    /\ commit_log = <<>>
    /\ exec = NoExec
    /\ dv = NoCalls
    /\ scanner = NoScan /\ dcache = NoCache /\ boot = NoBoot

SpecOrder == InitOrder /\ [][NextSources]_vars

----------------------------------------------------------------------------
(* SpecDepth: the scans of a pass under the settings the menu accepts for     *)
(* max_videos_per_channel (lines 2456-2460), below, at and above              *)
(* gap_check_limit, with and without the per-channel prompt; h1 has a History *)
(* entry, h2 has none                                                         *)

DepthSettings == {1, GapCheckLimit - 1, GapCheckLimit, GapCheckLimit + 1,
                  MaxVideosPerChannel}

InitDepth ==
    /\ channels = << [key |-> "h1", name |-> "A"], [key |-> "h2", name |-> "B"] >>
    /\ playlists = << [key |-> "p1", name |-> "P"] >>
    /\ config \in { [DefaultConfig EXCEPT !.max_videos_per_channel = m,
                                          !.ask_video_limit_per_channel = a] :
                       m \in DepthSettings, a \in BOOLEAN }
    /\ upstream = OrderListings
    /\ channel_history \in
          { FreshHistory,
            [channels |-> ("h1" :> [downloaded_videos |-> << "v1" >>]),
             first_run_completed |-> TRUE] }
    /\ channel_history_file = channel_history
    /\ StoresIdle /\ PassIdle
    /\ planner = NoPlanner
    /\ commit_log = <<>>
    /\ exec = NoExec
    /\ dv = NoCalls
    /\ scanner = NoScan /\ dcache = NoCache /\ boot = NoBoot

SpecDepth == InitDepth /\ [][NextSources]_vars

----------------------------------------------------------------------------
(* SpecCache: a DirectoryDurationCache over the media files P and Q.  The     *)
(* fields of dcache: cache is self.cache, dirty is self._dirty, file is the   *)
(* cache file, fs gives the stat values of the media files that exist, got is *)
(* the last call of get when nothing happened since; loaded tells that no set *)
(* was made since the cache was loaded, unsaved and saved hold what set       *)
(* stored since the last save and what a set followed by save stored          *)

CachePaths == {"P", "Q"}
CacheDurations == {10, 20}

\* get returned None
NoDuration == -1
NoGot == [path |-> None, value |-> NoDuration]

\* json.dump of self.cache: one item per key, and json.load of such a text
cache_dump(cache) ==
    { << k, cache[k].mtime, cache[k].size, cache[k].duration >> : k \in DOMAIN cache }

cache_parse(text) ==
    [k \in { t[1] : t \in text } |->
        LET t == CHOOSE t \in text : t[1] = k
        IN  [mtime |-> t[2], size |-> t[3], duration |-> t[4]]]

_load_cache(file) ==
    IF file.state = "ok" THEN cache_parse(file.text) ELSE EmptyMap

\* a get that compares the mtime alone
get_by_mtime(c, file_path) ==
    IF file_path \in DOMAIN c.cache /\ file_path \in DOMAIN c.fs
       /\ c.cache[file_path].mtime = c.fs[file_path].mtime
    THEN c.cache[file_path].duration
    ELSE NoDuration

get(c, file_path) ==
    IF file_path \in DOMAIN c.cache
    THEN IF file_path \notin DOMAIN c.fs THEN NoDuration   \* FileNotFoundError
         ELSE IF /\ c.cache[file_path].mtime = c.fs[file_path].mtime
                 /\ c.cache[file_path].size = c.fs[file_path].size
              THEN c.cache[file_path].duration
              ELSE NoDuration
    ELSE NoDuration

\* the value stored for a path by set
CacheEntry(stat, duration) ==
    [mtime |-> stat.mtime, size |-> stat.size, duration |-> duration]

\* a set that stores the entry and leaves the flag alone
set_unmarked(c, file_path, duration) ==
    IF file_path \notin DOMAIN c.fs THEN c
    ELSE [c EXCEPT !.cache = put_entry(@, file_path, CacheEntry(c.fs[file_path], duration))]

set(c, file_path, duration) ==
    IF file_path \notin DOMAIN c.fs THEN c                 \* FileNotFoundError
    ELSE [c EXCEPT !.cache = put_entry(@, file_path, CacheEntry(c.fs[file_path], duration)),
                   !.dirty = TRUE]

\* a save that writes nothing
save_unwritten(c) == [c EXCEPT !.dirty = FALSE]

save(c) ==
    IF c.dirty
    THEN [c EXCEPT !.file = [state |-> "ok", text |-> cache_dump(c.cache)],
                   !.dirty = FALSE]
    ELSE c

InitCache ==
    /\ config = DefaultConfig
    /\ channel_history = FreshHistory
    /\ channel_history_file = FreshHistory
    /\ SourcesIdle /\ StoresIdle /\ PassIdle
    /\ planner = NoPlanner
    /\ commit_log = <<>>
    /\ exec = NoExec
    /\ dv = NoCalls
    /\ scanner = NoScan /\ boot = NoBoot
    /\ \E q \in { EmptyMap, ("Q" :> [mtime |-> 1, size |-> 1, duration |-> 10]) } :
          dcache = [pc |-> "ready", cache |-> q, dirty |-> FALSE,
                    file |-> IF q = EmptyMap THEN [state |-> "missing", text |-> {}]
                             ELSE [state |-> "ok", text |-> cache_dump(q)],
                    fs |-> ("Q" :> [mtime |-> 1, size |-> 1]),
                    got |-> NoGot, loaded |-> TRUE,
                    unsaved |-> EmptyMap, saved |-> q]

UnchangedByCache ==
    UNCHANGED << channels, playlists, config, upstream, channel_history,
                 channel_history_file, download_history, last_download,
                 resume_state, resume_state_file, files, pc, first_pass,
                 videos_per_channel, next_source, all_download_tasks, jobs,
                 scan_log, pass_stats, pass_log, planner, commit_log, exec,
                 succeeded, failures, dv, scanner, boot >>

\* line 678
CacheGet ==
    /\ dcache.pc = "ready"
    /\ \E file_path \in CachePaths :
          dcache' = [dcache EXCEPT !.got = [path |-> file_path,
                                            value |-> get(dcache, file_path)]]
    /\ UnchangedByCache

\* line 694
CacheSet ==
    /\ dcache.pc = "ready"
    /\ \E duration \in CacheDurations :
          LET c == set(dcache, "P", duration)
          IN  dcache' = [c EXCEPT
                  !.got = NoGot,
                  !.loaded = FALSE,
                  !.unsaved = IF "P" \in DOMAIN dcache.fs
                              THEN put_entry(@, "P", CacheEntry(dcache.fs["P"], duration))
                              ELSE @]
    /\ UnchangedByCache

\* line 702
CacheSave ==
    /\ dcache.pc = "ready"
    /\ dcache' = [save(dcache) EXCEPT
          !.got = NoGot,
          !.unsaved = EmptyMap,
          !.saved = [k \in DOMAIN @ \cup DOMAIN dcache.unsaved |->
                        IF k \in DOMAIN dcache.unsaved THEN dcache.unsaved[k] ELSE @[k]]]
    /\ UnchangedByCache

\* line 161 in a process started later: a cache loaded from the file
CacheLoad ==
    /\ dcache.pc = "ready"
    /\ dcache' = [dcache EXCEPT !.cache = _load_cache(dcache.file),
                                !.dirty = FALSE, !.got = NoGot, !.loaded = TRUE,
                                !.unsaved = EmptyMap]
    /\ UnchangedByCache

\* the media file P is written: it exists, with some mtime and some size
FileWritten ==
    /\ dcache.pc = "ready"
    /\ \E mtime \in 1..MaxStamp, size \in 1..MaxSize :
          /\ "P" \in DOMAIN dcache.fs => dcache.fs["P"] # [mtime |-> mtime, size |-> size]
          /\ dcache' = [dcache EXCEPT
                !.fs = put_entry(@, "P", [mtime |-> mtime, size |-> size]),
                !.got = NoGot]
    /\ UnchangedByCache

\* the media file P is deleted (cleanup_old_videos, or the user)
FileRemoved ==
    /\ dcache.pc = "ready"
    /\ "P" \in DOMAIN dcache.fs
    /\ dcache' = [dcache EXCEPT !.fs = del_entry(@, "P"), !.got = NoGot]
    /\ UnchangedByCache

\* the cache file is damaged: json.load will raise on it
CacheFileDamaged ==
    /\ dcache.pc = "ready"
    /\ dcache.file.state = "ok"
    /\ dcache' = [dcache EXCEPT !.file = [state |-> "corrupt", text |-> {}],
                                !.got = NoGot, !.saved = EmptyMap]
    /\ UnchangedByCache

NextCache ==
    \/ CacheGet
    \/ CacheSet
    \/ CacheSave
    \/ CacheLoad
    \/ FileWritten
    \/ FileRemoved
    \/ CacheFileDamaged

SpecCache == InitCache /\ [][NextCache]_vars

----------------------------------------------------------------------------
(* SpecDirty: the calls of one DirectoryDurationCache with saves that can     *)
(* fail.  Beside cache, dirty, file and fs, dcache holds last, the call made  *)
(* last, and pending, which tells that a set stored an entry since the cache  *)
(* was loaded or last saved with success                                      *)

\* save when open or json.dump raises (lines 120-125): nothing is tried unless
\* the cache is dirty; torn tells that the file was opened, and so emptied,
\* before the exception
save_raising(c, torn) ==
    IF c.dirty
    THEN [c EXCEPT !.file = IF torn THEN [state |-> "corrupt", text |-> {}] ELSE @]
    ELSE c

InitDirty ==
    /\ config = DefaultConfig
    /\ channel_history = FreshHistory
    /\ channel_history_file = FreshHistory
    /\ SourcesIdle /\ StoresIdle /\ PassIdle
    /\ planner = NoPlanner
    /\ commit_log = <<>>
    /\ exec = NoExec
    /\ dv = NoCalls
    /\ scanner = NoScan /\ boot = NoBoot
    /\ \E q \in { EmptyMap, ("Q" :> [mtime |-> 1, size |-> 1, duration |-> 10]) } :
          dcache = [pc |-> "ready", cache |-> q, dirty |-> FALSE,
                    file |-> IF q = EmptyMap THEN [state |-> "missing", text |-> {}]
                             ELSE [state |-> "ok", text |-> cache_dump(q)],
                    fs |-> ("Q" :> [mtime |-> 1, size |-> 1]),
                    last |-> "__init__", pending |-> FALSE]

\* line 694
DirtySet ==
    /\ dcache.pc = "ready"
    /\ \E file_path \in CachePaths, duration \in CacheDurations :
          dcache' = [set(dcache, file_path, duration) EXCEPT
                        !.last = "set",
                        !.pending = @ \/ file_path \in DOMAIN dcache.fs]
    /\ UnchangedByCache

\* line 702, the file written
DirtySave ==
    /\ dcache.pc = "ready"
    /\ dcache' = [save(dcache) EXCEPT !.last = "save", !.pending = FALSE]
    /\ UnchangedByCache

\* line 702, the write raising
DirtySaveRaises ==
    /\ dcache.pc = "ready"
    /\ dcache.dirty
    /\ \E torn \in BOOLEAN :
          dcache' = [save_raising(dcache, torn) EXCEPT !.last = "save raised"]
    /\ UnchangedByCache

\* line 161 in a process started later
DirtyLoad ==
    /\ dcache.pc = "ready"
    /\ dcache' = [dcache EXCEPT !.cache = _load_cache(dcache.file),
                                !.dirty = FALSE, !.last = "__init__",
                                !.pending = FALSE]
    /\ UnchangedByCache

\* the media file P is written or deleted
DirtyFile ==
    /\ dcache.pc = "ready"
    /\ \/ \E mtime \in 1..MaxStamp, size \in 1..MaxSize :
             dcache' = [dcache EXCEPT
                          !.fs = put_entry(@, "P", [mtime |-> mtime, size |-> size]),
                          !.last = "file"]
       \/ dcache' = [dcache EXCEPT !.fs = del_entry(@, "P"), !.last = "file"]
    /\ UnchangedByCache

NextDirty ==
    \/ DirtySet
    \/ DirtySave
    \/ DirtySaveRaises
    \/ DirtyLoad
    \/ DirtyFile

SpecDirty == InitDirty /\ [][NextDirty]_vars

----------------------------------------------------------------------------
(* SpecBoot: one start of the process, from main to the constructed           *)
(* downloader.  boot.tools are the external tools that are installed;         *)
(* boot.disk gives each state file as "missing", "ok" (the JSON a save wrote),*)
(* "corrupt" (json.load raises on it) or "default" (the empty default,        *)
(* written by this start); boot.disk0 is the disk at the start; boot.mem      *)
(* gives each store in memory as "unset", "loaded" or "default";              *)
(* boot.touched are the files and directories read, created or written        *)

RequiredTools == {"yt-dlp", "ffmpeg", "ffprobe"}

StateFiles == {"config", "download_log", "last_download", "resume_state",
               "channel_history", "duration_cache"}

\* a check that lets every start through
check_dependencies_skipped(tools) == TRUE

check_dependencies(tools) == RequiredTools \subseteq tools

\* a load_* method on one file: the store in memory and the file afterwards,
\* the method saving the default it fell back to or not
load_json(state, saves_if_missing, saves_if_corrupt) ==
    IF state = "ok" THEN [mem |-> "loaded", disk |-> "ok"]
    ELSE IF state = "missing"
         THEN [mem |-> "default", disk |-> IF saves_if_missing THEN "default" ELSE state]
    ELSE [mem |-> "default", disk |-> IF saves_if_corrupt THEN "default" ELSE state]

InitBoot ==
    /\ config = DefaultConfig
    /\ channel_history = FreshHistory
    /\ channel_history_file = FreshHistory
    /\ SourcesIdle /\ StoresIdle /\ PassIdle
    /\ planner = NoPlanner
    /\ commit_log = <<>>
    /\ exec = NoExec
    /\ dv = NoCalls
    /\ scanner = NoScan /\ dcache = NoCache
    /\ \E tools \in SUBSET RequiredTools,
          disk \in [StateFiles -> {"missing", "ok", "corrupt"}] :
          boot = [pc |-> "main", tools |-> tools, disk |-> disk, disk0 |-> disk,
                  mem |-> [f \in StateFiles |-> "unset"], touched |-> {}]

UnchangedByBoot ==
    UNCHANGED << channels, playlists, config, upstream, channel_history,
                 channel_history_file, download_history, last_download,
                 resume_state, resume_state_file, files, pc, first_pass,
                 videos_per_channel, next_source, all_download_tasks, jobs,
                 scan_log, pass_stats, pass_log, planner, commit_log, exec,
                 succeeded, failures, dv, scanner, dcache >>

\* what a load leaves in boot for the file f
BootLoaded(b, f, r, next) ==
    [b EXCEPT !.pc = next, !.mem[f] = r.mem, !.disk[f] = r.disk,
              !.touched = @ \cup {f}]

\* main, lines 2606-2612
MainCheck ==
    /\ boot.pc = "main"
    /\ boot' = [boot EXCEPT !.pc = IF check_dependencies(boot.tools)
                                   THEN "Config" ELSE "exited"]
    /\ UnchangedByBoot

\* Config(): the directories of __post_init__ and the duration cache
MakeConfig ==
    /\ boot.pc = "Config"
    /\ boot' = [BootLoaded(boot, "duration_cache",
                           load_json(boot.disk["duration_cache"], FALSE, FALSE),
                           "setup_logging")
                  EXCEPT !.touched = @ \cup {"base directories"}]
    /\ UnchangedByBoot

\* YouTubeFeedDownloader.__init__, line 219
SetupLogging ==
    /\ boot.pc = "setup_logging"
    /\ boot' = [boot EXCEPT !.pc = "load_config", !.touched = @ \cup {"YT_feed.log"}]
    /\ UnchangedByBoot

\* line 220
LoadConfig ==
    /\ boot.pc = "load_config"
    /\ boot' = BootLoaded(boot, "config", load_json(boot.disk["config"], TRUE, TRUE),
                          "load_download_history")
    /\ UnchangedByBoot

\* line 221: the download log, then the last-download snapshot, in one try
LoadDownloadHistory ==
    /\ boot.pc = "load_download_history"
    /\ LET log == load_json(boot.disk["download_log"], TRUE, FALSE)
           last == load_json(boot.disk["last_download"], FALSE, FALSE)
           raised == "corrupt" \in {boot.disk["download_log"], boot.disk["last_download"]}
           read_last == boot.disk["download_log"] # "corrupt"
       IN  boot' = [boot EXCEPT
              !.pc = "load_resume_state",
              !.mem["download_log"] = IF raised THEN "default" ELSE log.mem,
              !.mem["last_download"] = IF raised THEN "default" ELSE last.mem,
              !.disk["download_log"] = log.disk,
              !.touched = @ \cup {"download_log"}
                            \cup IF read_last THEN {"last_download"} ELSE {}]
    /\ UnchangedByBoot

\* line 222
LoadResumeState ==
    /\ boot.pc = "load_resume_state"
    /\ boot' = BootLoaded(boot, "resume_state",
                          load_json(boot.disk["resume_state"], TRUE, TRUE),
                          "load_channel_history")
    /\ UnchangedByBoot

\* line 223
LoadChannelHistory ==
    /\ boot.pc = "load_channel_history"
    /\ boot' = BootLoaded(boot, "channel_history",
                          load_json(boot.disk["channel_history"], TRUE, TRUE),
                          "ensure_current_directories")
    /\ UnchangedByBoot

\* line 226: the downloader is constructed
EnsureDirectories ==
    /\ boot.pc = "ensure_current_directories"
    /\ boot' = [boot EXCEPT !.pc = "started",
                            !.touched = @ \cup {"current directories"}]
    /\ UnchangedByBoot

NextBoot ==
    \/ MainCheck
    \/ MakeConfig
    \/ SetupLogging
    \/ LoadConfig
    \/ LoadDownloadHistory
    \/ LoadResumeState
    \/ LoadChannelHistory
    \/ EnsureDirectories

SpecBoot == InitBoot /\ [][NextBoot]_vars

----------------------------------------------------------------------------
(* SpecSweep: starts of the process over a resume file that earlier runs     *)
(* wrote.  Time is counted in days.  boot.now is the clock, boot.file0 the   *)
(* resume file as the start found it, boot.starts the number of starts.      *)
(* The "playlists" section of the store is left out: update_resume_state is  *)
(* only ever called with item_type "video", so that section stays empty.     *)

SweepNow == 20
SweepIds == {"v1", "v2", "v3"}
MaxStarts == 2

\* line 79
ResumeCacheDays == 7

\* the "2000-01-01" of lines 448 and 456, on the clock of the model
Epoch2000 == 0

\* the ages a start can meet: just older than the cutoff, at it, just younger, new
SweepStamps == {SweepNow - ResumeCacheDays - 1, SweepNow - ResumeCacheDays,
                SweepNow - ResumeCacheDays + 1, SweepNow}

\* an entry as update_resume_state writes it at the time now
StampedEntry(progress, now) == [progress |-> progress, timestamp |-> now]

\* an entry an earlier version wrote without a timestamp
UnstampedEntry(progress) == [progress |-> progress]

\* line 448
entry_time(entry) ==
    IF "timestamp" \in DOMAIN entry THEN entry.timestamp ELSE Epoch2000

\* lines 446-451: the entries the loop leaves
swept(videos, now) ==
    [k \in { x \in DOMAIN videos :
                ~ (entry_time(videos[x]) < now - ResumeCacheDays) } |-> videos[k]]

\* a sweep that never writes the file
cleanup_unsaved(videos, file, now) ==
    [resume_state |-> swept(videos, now), file |-> file]

\* cleanup_old_resume_entries: the store and the file it leaves
cleanup_old_resume_entries(videos, file, now) ==
    LET kept == swept(videos, now)
        cleaned_count == Cardinality(DOMAIN videos) - Cardinality(DOMAIN kept)
    IN  [resume_state |-> kept,
         file |-> IF cleaned_count > 0 THEN ResumeFile(kept) ELSE file]

SweepFiles ==
    { ResumeFile(v) :
        v \in UNION { [S -> { StampedEntry(50, t) : t \in SweepStamps }
                            \cup {UnstampedEntry(50)}] : S \in SUBSET SweepIds } }
    \cup { [state |-> s, videos |-> EmptyMap, len |-> 0] : s \in {"missing", "corrupt"} }

InitSweep ==
    /\ config = DefaultConfig
    /\ channel_history = FreshHistory
    /\ channel_history_file = FreshHistory
    /\ SourcesIdle /\ PassIdle
    /\ download_history = EmptyMap
    /\ last_download = None
    /\ files = EmptyMap
    /\ succeeded = {}
    /\ failures = {}
    /\ planner = NoPlanner
    /\ commit_log = <<>>
    /\ exec = NoExec
    /\ dv = NoCalls
    /\ scanner = NoScan /\ dcache = NoCache
    /\ resume_state = EmptyMap
    /\ resume_state_file \in SweepFiles
    /\ boot = [pc |-> "load_resume_state", now |-> SweepNow,
               file0 |-> resume_state_file, starts |-> 1]

UnchangedBySweep ==
    UNCHANGED << channels, playlists, config, upstream, channel_history,
                 channel_history_file, download_history, last_download,
                 files, pc, first_pass, videos_per_channel, next_source,
                 all_download_tasks, jobs, scan_log, pass_stats, pass_log,
                 planner, commit_log, exec, succeeded, failures, dv,
                 scanner, dcache >>

\* load_resume_state, lines 406-409 and 413-428: the file is read, or the empty
\* default is taken and saved
SweepLoad ==
    /\ boot.pc = "load_resume_state"
    /\ IF resume_state_file.state = "ok"
       THEN /\ resume_state' = resume_state_file.videos
            /\ UNCHANGED resume_state_file
            /\ boot' = [boot EXCEPT !.pc = "cleanup_old_resume_entries"]
       ELSE /\ resume_state' = EmptyMap
            /\ resume_state_file' = ResumeFile(EmptyMap)
            /\ boot' = [boot EXCEPT !.pc = "loaded"]
    /\ UnchangedBySweep

\* line 412
SweepClean ==
    /\ boot.pc = "cleanup_old_resume_entries"
    /\ LET r == cleanup_old_resume_entries(resume_state, resume_state_file, boot.now)
       IN  /\ resume_state' = r.resume_state
           /\ resume_state_file' = r.file
    /\ boot' = [boot EXCEPT !.pc = "loaded"]
    /\ UnchangedBySweep

\* update_resume_state during the run, lines 468-482
SweepUpdate ==
    /\ boot.pc \in {"loaded", "running"}
    /\ \E id \in SweepIds :
          /\ resume_state' = put_entry(resume_state, id, StampedEntry(0, boot.now))
          /\ resume_state_file' = ResumeFile(resume_state')
    /\ boot' = [boot EXCEPT !.pc = "running"]
    /\ UnchangedBySweep

\* the process ends and is started again, at once or days later
SweepRestart ==
    /\ boot.pc \in {"loaded", "running"}
    /\ boot.starts < MaxStarts
    /\ \E days \in {0, 1, ResumeCacheDays, ResumeCacheDays + 1} :
          boot' = [pc |-> "load_resume_state", now |-> boot.now + days,
                   file0 |-> resume_state_file, starts |-> boot.starts + 1]
    /\ resume_state' = EmptyMap
    /\ UNCHANGED resume_state_file
    /\ UnchangedBySweep

NextSweep ==
    \/ SweepLoad
    \/ SweepClean
    \/ SweepUpdate
    \/ SweepRestart

SpecSweep == InitSweep /\ [][NextSweep]_vars

----------------------------------------------------------------------------
(* SpecExec: one call of _execute_download.  A stderr line is TRUE when it   *)
(* holds "ERROR:".  Lines of stdout do not enter the result and are left out. *)

ExecStart == [pc |-> "popen", alive |-> FALSE, return_code |-> 0,
              pipe |-> <<>>,            \* stderr lines written and not yet read
              written |-> 0,            \* number of stderr lines written
              wrote_error |-> FALSE,    \* a line with "ERROR:" was written
              stderr_lines |-> <<>>,    \* the lines the loop has read
              success |-> FALSE]

InitExec ==
    /\ channel_history = FreshHistory
    /\ channel_history_file = FreshHistory
    /\ config = DefaultConfig
    /\ SourcesIdle /\ StoresIdle /\ PassIdle
    /\ planner = NoPlanner
    /\ commit_log = <<>>
    /\ exec = ExecStart
    /\ dv = NoCalls
    /\ scanner = NoScan /\ dcache = NoCache /\ boot = NoBoot

UnchangedByExec ==
    UNCHANGED << channels, playlists, config, upstream, channel_history,
                 channel_history_file, download_history, last_download,
                 resume_state, files, pc, first_pass, videos_per_channel,
                 next_source, all_download_tasks, jobs, scan_log, pass_stats,
                 pass_log, planner, commit_log, resume_state_file, succeeded,
                 failures, dv,
                 scanner, dcache, boot >>

\* line 1452: the process starts, or Popen raises and line 1527 returns False
Popen ==
    /\ exec.pc = "popen"
    /\ \/ exec' = [exec EXCEPT !.pc = "poll", !.alive = TRUE]
       \/ exec' = [exec EXCEPT !.pc = "raised", !.success = FALSE]
    /\ UnchangedByExec

\* the process writes one line to stderr
ProcWrite ==
    /\ exec.alive
    /\ exec.written < MaxLines
    /\ \E is_error \in BOOLEAN :
         exec' = [exec EXCEPT !.pipe = Append(@, is_error),
                              !.written = @ + 1,
                              !.wrote_error = @ \/ is_error]
    /\ UnchangedByExec

\* the process exits
ProcExit ==
    /\ exec.alive
    /\ \E code \in {0, 1} : exec' = [exec EXCEPT !.alive = FALSE, !.return_code = code]
    /\ UnchangedByExec

\* line 1469: leave the loop as soon as the process has exited
Poll ==
    /\ exec.pc = "poll"
    /\ exec' = [exec EXCEPT !.pc = IF exec.alive THEN "select" ELSE "wait"]
    /\ UnchangedByExec

\* lines 1472-1480: one readline from stderr when it is ready
Select ==
    /\ exec.pc = "select"
    /\ exec' = IF exec.pipe = <<>>
               THEN [exec EXCEPT !.pc = "poll"]
               ELSE [exec EXCEPT !.pc = "poll",
                                 !.pipe = Tail(@),
                                 !.stderr_lines = Append(@, Head(exec.pipe))]
    /\ UnchangedByExec

\* the test of lines 1516-1522 on the lines read
exit_verdict(return_code, stderr_lines) ==
    return_code = 0 /\ ~ \E i \in DOMAIN stderr_lines : stderr_lines[i]

\* lines 1513-1522
Wait ==
    /\ exec.pc = "wait"
    /\ exec' = [exec EXCEPT !.pc = "returned",
                            !.success = exit_verdict(exec.return_code, exec.stderr_lines)]
    /\ UnchangedByExec

NextExec == Popen \/ ProcWrite \/ ProcExit \/ Poll \/ Select \/ Wait

SpecExec == InitExec /\ [][NextExec]_vars

----------------------------------------------------------------------------
(* SpecPlaylist: one call of download_playlist.  exec holds the arguments,    *)
(* what the call meets (the playlist information the tool gives, whether the  *)
(* retrieval process can be launched, its exit code) and the value returned   *)

PlaylistTitles == {"L1", "L2"}
PlaylistCounts == {0, 1, 7}

\* get_playlist_info returned None
NoPlaylistInfo == [title |-> None, video_count |-> 0]

\* what get_playlist_info returns: None, or the information (lines 975-1011)
PlaylistInfos ==
    {NoPlaylistInfo} \cup { [title |-> t, video_count |-> c] :
                                t \in PlaylistTitles, c \in PlaylistCounts }

\* the None of (False, None)
NoDir == [base |-> None, name |-> None]

\* a local name that no assignment has bound yet
Unbound == "unbound"

\* the directory build_playlist_download_command returns (lines 1126-1190)
PlaylistDir(playlist_name, download_type) ==
    [base |-> IF download_type = "audio" THEN "current_podcast_dir"
              ELSE "current_playlist_dir",
     name |-> playlist_name]

\* download_playlist once get_playlist_info has returned playlist_info.
\* playlist_dir is the value the local name playlist_dir has at line 2496;
\* reading the name while it is unbound raises UnboundLocalError, which the
\* except of line 2583 turns into (False, None), as it does a failing Popen
download_playlist(playlist_info, playlist_dir, download_type, popen_ok, return_code) ==
    IF playlist_info = NoPlaylistInfo
    THEN [success |-> FALSE, dir |-> NoDir, launched |-> FALSE]
    ELSE IF playlist_dir = Unbound
    THEN [success |-> FALSE, dir |-> NoDir, launched |-> FALSE]
    ELSE IF ~ popen_ok
    THEN [success |-> FALSE, dir |-> NoDir, launched |-> FALSE]
    ELSE [success |-> return_code = 0,
          dir |-> PlaylistDir(playlist_info.title, download_type),
          launched |-> TRUE]

InitPlaylist ==
    /\ config = DefaultConfig
    /\ channel_history = FreshHistory
    /\ channel_history_file = FreshHistory
    /\ SourcesIdle /\ StoresIdle /\ PassIdle
    /\ planner = NoPlanner
    /\ commit_log = <<>>
    /\ dv = NoCalls
    /\ scanner = NoScan /\ dcache = NoCache /\ boot = NoBoot
    /\ \E url \in {"p1", "p2"}, download_type \in {"video", "audio"},
          popen_ok \in BOOLEAN, return_code \in {0, 1, 2} :
          exec = [pc |-> "called", playlist_url |-> url,
                  download_type |-> download_type, popen_ok |-> popen_ok,
                  return_code |-> return_code, playlist_info |-> NoPlaylistInfo,
                  playlist_dir |-> Unbound,
                  result |-> [success |-> FALSE, dir |-> NoDir, launched |-> FALSE]]

\* line 2484
PlGetInfo ==
    /\ exec.pc = "called"
    /\ \E info \in PlaylistInfos :
          exec' = [exec EXCEPT !.pc = "informed", !.playlist_info = info]
    /\ UnchangedByExec

\* lines 2485-2586; the first assignment to playlist_dir is that of line 2506,
\* so the name is unbound when line 2496 reads it
PlRun ==
    /\ exec.pc = "informed"
    /\ exec' = [exec EXCEPT
          !.pc = "returned",
          !.result = download_playlist(exec.playlist_info, exec.playlist_dir,
                                       exec.download_type, exec.popen_ok,
                                       exec.return_code)]
    /\ UnchangedByExec

NextPlaylist == PlGetInfo \/ PlRun

SpecPlaylist == InitPlaylist /\ [][NextPlaylist]_vars

----------------------------------------------------------------------------
(* Claims *)

NoRepeat(ids) == \A i, j \in DOMAIN ids : ids[i] = ids[j] => i = j

\* C1: starting from an empty History, after any sequence of
\* update_channel_history calls (any sources, any ids, repeated ids included) no
\* id appears more than once in any source's downloaded_videos list.
C1_NoDuplicateHistory ==
    \A handle \in DOMAIN channel_history.channels :
        NoRepeat(channel_history.channels[handle].downloaded_videos)

\* a commit was repeated for a source that holds two entries
C1_RepeatedCommit ==
    \E i, j \in DOMAIN commit_log :
        /\ i < j
        /\ commit_log[i] = commit_log[j]
        /\ Len(downloaded_videos(commit_log[i].handle)) >= 2

\* C2: two consecutive passes over an unchanged upstream, the tool answering
\* every scan of both, the first having started downloads that all succeeded:
\* the second pass appends no History entry and starts no download job.
C2_SecondPassIdle ==
    \A p \in 1..(Len(pass_log) - 1) :
        (/\ pass_log[p].quiet /\ pass_log[p + 1].quiet
         /\ ~ pass_log[p].failed)
        => (~ pass_log[p + 1].started /\ ~ pass_log[p + 1].appended)

\* C3: whatever scan result a planner is handed (first-run or steady-state
\* policy), the fetch tasks it emits for the source never hold an id twice.
C3_NoTaskTwice ==
    planner.policy # None =>
        NoRepeat([i \in DOMAIN planner.out.download_tasks |->
                     planner.out.download_tasks[i].video_info.id])

\* C4: with short-filtering enabled, an item shorter than 60 seconds is never
\* a fetch task of any pass and never enters History.
C4_ShortsNeverFetched ==
    config.filter_shorts =>
        /\ \A i \in DOMAIN all_download_tasks :
              all_download_tasks[i].video_info.duration >= 60
        /\ \A handle \in DOMAIN channel_history.channels :
              \A id \in Range(channel_history.channels[handle].downloaded_videos) :
                  VideoDuration[id] >= 60

\* C5: a steady-state planner puts every scanned item into exactly one class,
\* tested in this order: skipped short (filter on, duration < 60), already
\* downloaded (id in the source's History), fetch task; the three tallies sum to
\* the scan length; History {v1, v2}, scan [v3, v2, v1] with durations
\* [120, 30, 200] and the filter on give tasks [v3], 1 short, 1 already downloaded.
C5_Classification ==
    planner.policy \in {"channel_auto", "playlist_auto"} =>
        LET key == IF planner.policy = "channel_auto" THEN "h1" ELSE "p1"
            scan == planner.scan
            out == planner.out
            known == Range(downloaded_videos(key))
            Short(v) == config.filter_shorts /\ v.duration < 60
            Fetch(v) == ~ Short(v) /\ v.id \notin known
            shorts == { i \in DOMAIN scan : Short(scan[i]) }
            already == { i \in DOMAIN scan : ~ Short(scan[i]) /\ scan[i].id \in known }
        IN  /\ out.shorts_skipped = Cardinality(shorts)
            /\ out.already_downloaded_count = Cardinality(already)
            /\ out.new_videos_count = Len(out.download_tasks)
            /\ out.shorts_skipped + out.already_downloaded_count
                  + out.new_videos_count = Len(scan)
            /\ [i \in DOMAIN out.download_tasks |-> out.download_tasks[i].video_info]
                  = SelectSeq(scan, Fetch)
            /\ (/\ known = {"v1", "v2"}
                /\ config.filter_shorts
                /\ scan = << [id |-> "v3", duration |-> 120],
                             [id |-> "v2", duration |-> 30],
                             [id |-> "v1", duration |-> 200] >>)
               => (/\ [i \in DOMAIN out.download_tasks |->
                          out.download_tasks[i].video_info.id] = << "v3" >>
                   /\ out.shorts_skipped = 1
                   /\ out.already_downloaded_count = 1)

\* the scenario of C5 has been planned for the channel
C5_Scenario ==
    /\ planner.policy = "channel_auto"
    /\ Range(downloaded_videos("h1")) = {"v1", "v2"}
    /\ config.filter_shorts
    /\ planner.scan = << [id |-> "v3", duration |-> 120],
                         [id |-> "v2", duration |-> 30],
                         [id |-> "v1", duration |-> 200] >>
    /\ Len(planner.out.download_tasks) = 1

\* C6: with N tasks and pool size W, at most W download processes run at any
\* instant, every task is picked up by a worker exactly once, and when
\* download_videos_parallel returns exactly N outcomes, one per task, have been
\* collected, whatever the mix of successes and failures.
C6_PoolBoundAndCompleteness ==
    /\ Cardinality(Running) <= config.max_parallel_downloads
    /\ \A i \in DOMAIN jobs :
          /\ jobs[i].runs <= 1
          /\ jobs[i].st \in {"running", "done", "collected"} => jobs[i].runs = 1
    /\ pc = "summary" =>
          /\ Len(jobs) = Len(all_download_tasks)
          /\ \A i \in DOMAIN jobs : jobs[i].st = "collected" /\ jobs[i].runs = 1

\* five tasks on a pool of two have all been collected, three of them successes
C6_FiveTasksTwoWorkers ==
    /\ pc = "summary"
    /\ config.max_parallel_downloads = 2
    /\ Len(jobs) = 5
    /\ Cardinality({ i \in DOMAIN jobs : jobs[i].success }) = 3
    /\ Cardinality({ i \in DOMAIN jobs : jobs[i].st = "collected" }) = 5

\* C7: while a job of the first pass is pending or running, the persisted
\* first-run flag still says first run.
C7_FlagClearedAfterJobs ==
    (/\ first_pass
     /\ pc = "collect"
     /\ \E i \in DOMAIN jobs : jobs[i].st \in {"queued", "running"})
    => ~ channel_history_file.first_run_completed

TasksOf(key) == SelectSeq(all_download_tasks, LAMBDA t : t.key = key)

ListingOf(src) ==
    upstream[IF src.kind = "channel" THEN ChannelUrl(src.key) ELSE src.key]

\* C8: in the first pass with limit K, the tool answering every scan, every
\* source whose upstream listing has at least K items gets exactly K fetch
\* tasks, the first K items of its listing in order.
C8_FirstRunTakesK ==
    (/\ first_pass
     /\ pc \in {"download", "collect", "summary"}
     /\ pass_stats.quiet)
    => \A n \in DOMAIN Sources :
          Len(ListingOf(Sources[n])) >= videos_per_channel =>
              [i \in DOMAIN TasksOf(Sources[n].key) |->
                  TasksOf(Sources[n].key)[i].video_info]
              = Take(ListingOf(Sources[n]), videos_per_channel)

\* C9: a download attempt whose process ran is reported successful if and only
\* if the process exited with code 0 and wrote no stderr line holding "ERROR:".
C9_SuccessIffCleanExit ==
    exec.pc = "returned" =>
        (exec.success <=> (exec.return_code = 0 /\ ~ exec.wrote_error))

\* C10: once the result of a successful job has been processed, the item's id
\* is in downloaded_videos of the History entry keyed by the source it was
\* scanned from.
C10_SuccessCommittedToSource ==
    \A i \in DOMAIN jobs :
        (jobs[i].st = "collected" /\ jobs[i].success)
        => all_download_tasks[i].video_info.id
              \in Range(downloaded_videos(all_download_tasks[i].key))

\* C13: every update_channel_history call that appends an id has written the
\* whole History to its file when it returns: after any sequence of commits the
\* file on disk equals the History in memory, so what a restart between two
\* commits loads holds every committed id.
C13_HistoryWriteThrough ==
    /\ channel_history_file = channel_history
    /\ \A n \in DOMAIN commit_log :
          /\ commit_log[n].handle \in DOMAIN channel_history_file.channels
          /\ commit_log[n].id \in
                Range(channel_history_file.channels[commit_log[n].handle].downloaded_videos)

\* three commits have put three ids of one source into the file
C13_ThreeIdsOnDisk ==
    /\ Len(commit_log) >= 3
    /\ \E handle \in DOMAIN channel_history_file.channels :
          Len(channel_history_file.channels[handle].downloaded_videos) = 3

\* C11: an id is appended to a source's History only after a job for that item
\* reported success: starting from an empty History, every id in History has a
\* successful download in this or an earlier pass, and a job that failed or
\* raised leaves History as it was.
C11_HistoryOnlySuccesses ==
    /\ \A handle \in DOMAIN channel_history.channels :
          \A id \in Range(channel_history.channels[handle].downloaded_videos) :
              \E s \in succeeded : s.id = id
    /\ \A handle \in DOMAIN channel_history_file.channels :
          \A id \in Range(channel_history_file.channels[handle].downloaded_videos) :
              \E s \in succeeded : s.id = id

\* a pass has collected one failed job and one successful job, whose id is in History
C11_FailureAndSuccessCollected ==
    /\ pc = "summary"
    /\ \E i, j \in DOMAIN jobs :
          /\ jobs[i].st = "collected" /\ ~ jobs[i].success
          /\ jobs[j].st = "collected" /\ jobs[j].success
          /\ all_download_tasks[j].video_info.id \in Range(downloaded_videos("h1"))
          /\ all_download_tasks[i].video_info.id \notin Range(downloaded_videos("h1"))

\* C12: no item is successfully downloaded in two different passes, wherever
\* in a pass the process dies before it is started again.
C12_AtMostOnceAcrossCrashes ==
    \A a, b \in succeeded : a.id = b.id => a.pass = b.pass

StoreSteps == {"save_open", "save_close"}

\* C14: a job created a Resume entry for an id (update_resume_state returned)
\* and then failed, or the process died before the job succeeded: after the
\* next process start get_resume_state("video", id) returns that entry.
C14_ResumeSurvivesRestart ==
    dv.restarted =>
        \A i \in DOMAIN dv.thr :
            (dv.thr[i].put_saved /\ dv.thr[i].pc \in {"launch", "running", "failed"})
            => get_resume_state(dv.thr[i].video_id) = ResumeEntry(dv.thr[i].progress)

C16_WorkersOutsideStores ==
    \A i \in DOMAIN dv.thr : dv.thr[i].pc \notin StoreSteps

\* C17: whenever no update_resume_state or clear_resume_state is in progress,
\* the resume-state file is well-formed and holds exactly the store in memory.
C17_ResumeWriteThrough ==
    (/\ ~ dv.restarted
     /\ \A i \in DOMAIN dv.thr : dv.thr[i].pc \notin StoreSteps)
    => (/\ resume_state_file.state = "ok"
        /\ resume_state_file.videos = resume_state)

\* C18: a job that began with a local artifact above 1 MB or with a Resume entry
\* for its id, and only such a job, is resumed: every process it starts has
\* --continue and is started after update_resume_state wrote its entry.
C18_ResumableIffEvidence ==
    \A i \in DOMAIN dv.thr :
        dv.thr[i].pc # "queued" =>
            LET evidence == \/ dv.thr[i].artifact = "large"
                            \/ dv.thr[i].entry0 # NoResumeEntry
            IN  /\ dv.thr[i].resume = evidence
                /\ \A n \in DOMAIN dv.thr[i].launches :
                      /\ dv.thr[i].launches[n].cmd.continue = evidence
                      /\ dv.thr[i].launches[n].put_saved = evidence

\* C19: a job starts the download process at most twice; the second start
\* follows a first one with subtitles that failed with a subtitle-related
\* error, and runs without subtitles; a job whose second process failed, or
\* whose first failure was of another kind, has failed without another start.
C19_SubtitleRetry ==
    \A i \in DOMAIN dv.thr :
        LET l == dv.thr[i].launches
        IN  /\ Len(l) <= 2
            /\ Len(l) >= 1 => l[1].cmd.skip_subs = ~ dv.thr[i].has_subtitles
            /\ Len(l) = 2 =>
                  /\ dv.thr[i].has_subtitles
                  /\ ~ l[1].cmd.skip_subs
                  /\ l[1].outcome = "subtitle_error"
                  /\ l[2].cmd.skip_subs
            /\ (Len(l) >= 1 /\ l[Len(l)].outcome \in {"error", "raised"})
                  => dv.thr[i].pc = "failed"
            /\ (Len(l) = 2 /\ l[2].outcome = "subtitle_error")
                  => dv.thr[i].pc = "failed"
            /\ (Len(l) = 1 /\ l[1].outcome = "subtitle_error" /\ l[1].cmd.skip_subs)
                  => dv.thr[i].pc = "failed"

\* a job has failed after its second process, started without subtitles, failed
C19_SecondAttemptFailed ==
    \E i \in DOMAIN dv.thr :
        /\ dv.thr[i].pc = "failed"
        /\ Len(dv.thr[i].launches) = 2
        /\ dv.thr[i].launches[2].outcome # "ok"

\* C21: a job that failed is picked up by a worker once in its pass, and its id
\* enters the History of its source only through a download of that id that
\* succeeded; in every pass whose scan of the same source returns the id, the
\* pass of the failure and the later ones, as long as no download of the id has
\* succeeded, the id is a fetch task.
C21_RetryByRediscovery ==
    /\ \A i \in DOMAIN jobs : jobs[i].runs <= 1
    /\ \A f \in failures :
          /\ (\A s \in succeeded : s.id # f.id)
                => f.id \notin Range(downloaded_videos(f.key))
          /\ (/\ \A s \in succeeded : s.id # f.id
              /\ f.key \in DOMAIN scan_log
              /\ \E i \in DOMAIN scan_log[f.key].recent_videos :
                    scan_log[f.key].recent_videos[i].id = f.id)
             => \E i \in DOMAIN all_download_tasks :
                   /\ all_download_tasks[i].key = f.key
                   /\ all_download_tasks[i].video_info.id = f.id

\* the positions of an event in the log of the returned scan
LogAt(e) == { i \in DOMAIN scanner.out.log : scanner.out.log[i] = e }

\* C22: a scan makes at most max_retries flat-listing queries; a query that ends
\* in a timeout or a nonzero exit and is not the last one allowed is followed by
\* another; between two queries there is exactly one sleep of retry_delay and
\* there is no other sleep; the fallback is entered at most once, as the last
\* thing the scan does, and exactly when max_retries queries were made and the
\* last of them exited nonzero.
C22_RetryThenFallback ==
    scanner.pc = "returned" =>
        LET log == scanner.out.log
            n == Cardinality(LogAt("query"))
        IN  /\ n <= config.max_retries
            /\ \A k \in 1..n :
                  (k < config.max_retries
                   /\ scanner.env.attempts[k] \in {"timeout", "failed"}) => n > k
            /\ \A i \in LogAt("query") : i > 1 => log[i - 1] = "sleep"
            /\ \A i \in LogAt("sleep") :
                  /\ i > 1 /\ log[i - 1] = "query"
                  /\ i < Len(log) /\ log[i + 1] = "query"
            /\ Cardinality(LogAt("fallback")) <= 1
            /\ \A i \in LogAt("fallback") : i = Len(log)
            /\ (LogAt("fallback") # {})
                  <=> (n > 0 /\ n = config.max_retries
                       /\ scanner.env.attempts[n] = "failed")

\* a timeout, a nonzero exit and a second nonzero exit, then the fallback
C22_ThreeQueriesThenFallback ==
    /\ scanner.pc = "returned"
    /\ config.max_retries = 3
    /\ scanner.env.attempts[1] = "timeout"
    /\ scanner.env.attempts[2] = "failed"
    /\ scanner.out.log = << "query", "sleep", "query", "sleep", "query", "fallback" >>

\* C23: the fallback of a scan issues at most min(limit, 50) one-item queries
\* and the scan that entered it returns at most that many items, in a first run
\* as in a steady-state pass.
C23_FallbackCeiling ==
    scanner.pc = "returned" =>
        LET ceiling == Min(scanner.max_videos, FallbackCeiling)
        IN  /\ scanner.out.items <= ceiling
            /\ LogAt("fallback") # {} => Len(scanner.out.videos) <= ceiling

\* C25: when the last flat-listing query of a scan printed the listing, the
\* scan returns the records of that output, in its order, whatever lines that
\* are no records stand between them; and when the fallback ran with every
\* query answered, it returns the records among the items it asked for.
C25_MalformedSkipped ==
    scanner.pc = "returned" =>
        LET listing == upstream[ChannelUrl("h1")]
            n == Cardinality(LogAt("query"))
        IN  /\ (n > 0 /\ scanner.env.attempts[n] = "ok")
                  => scanner.out.videos =
                        SelectSeq(Take(listing, scanner.max_videos), is_record)
            /\ (LogAt("fallback") # {} /\ scanner.env.fallback
                /\ scanner.env.hangs = 0)
                  => scanner.out.videos =
                        SelectSeq(Take(listing, scanner.out.items), is_record)

\* C24: the step that scans and plans a source whose scan returned no item adds
\* no fetch task, leaves History and the Resume store as they were, in memory
\* and on disk, and goes on to the next source without leaving the planning;
\* when the planning of a pass is over every source has been scanned.
C24_EmptyScanSkipsSource ==
    /\ [][ (next_source' # next_source /\ pc \in {"first_run_scan", "auto_scan"}
            /\ scan_log'[Sources[next_source].key].recent_videos = <<>>)
           => /\ all_download_tasks' = all_download_tasks
              /\ UNCHANGED << channel_history, channel_history_file,
                              resume_state, resume_state_file >>
              /\ pc' = pc
              /\ next_source' = next_source + 1 ]_vars
    /\ [](pc = "download" =>
             \A i \in DOMAIN Sources : Sources[i].key \in DOMAIN scan_log)

\* the scan of the first channel returned nothing, the second channel and the
\* playlist were scanned after it and gave fetch tasks
C24_EmptyThenTasks ==
    /\ pc = "download"
    /\ ~ first_pass
    /\ scan_log["h1"].recent_videos = <<>>
    /\ scan_log["h2"].recent_videos # <<>>
    /\ \E i \in DOMAIN all_download_tasks : all_download_tasks[i].key = "p1"
    /\ "v3" \in DOMAIN resume_state

\* C26: a call of get(path) returns a duration only when the cache holds an
\* entry for the path, the file exists, and the stored mtime and the stored size
\* both equal the file's; it then returns the stored duration; with no entry, a
\* missing file or a difference in either value it returns None.
C26_CacheValidity ==
    dcache.pc = "ready" /\ dcache.got # NoGot =>
        LET path == dcache.got.path
            valid == /\ path \in DOMAIN dcache.cache
                     /\ path \in DOMAIN dcache.fs
                     /\ dcache.cache[path].mtime = dcache.fs[path].mtime
                     /\ dcache.cache[path].size = dcache.fs[path].size
        IN  /\ valid => dcache.got.value = dcache.cache[path].duration
            /\ ~ valid => dcache.got.value = NoDuration

\* get(P) returned None for an entry whose mtime is the file's and whose size
\* is not
C26_SizeAloneDiffers ==
    /\ dcache.pc = "ready"
    /\ dcache.got = [path |-> "P", value |-> NoDuration]
    /\ "P" \in DOMAIN dcache.cache /\ "P" \in DOMAIN dcache.fs
    /\ dcache.cache["P"].mtime = dcache.fs["P"].mtime
    /\ dcache.cache["P"].size # dcache.fs["P"].size

\* C27: get(P) returns None when the cache holds an entry for P and the file
\* now has another size; and get(P) on a cache loaded from the file, no set
\* made since, returns d when set(P, d) was followed by save() and P still has
\* the mtime and the size it had at that set.
C27_InvalidationAndRoundTrip ==
    dcache.pc = "ready" /\ dcache.got # NoGot /\ dcache.got.path = "P" =>
        /\ ("P" \in DOMAIN dcache.cache /\ "P" \in DOMAIN dcache.fs
            /\ dcache.cache["P"].size # dcache.fs["P"].size)
              => dcache.got.value = NoDuration
        /\ (dcache.loaded /\ "P" \in DOMAIN dcache.saved /\ "P" \in DOMAIN dcache.fs
            /\ dcache.saved["P"].mtime = dcache.fs["P"].mtime
            /\ dcache.saved["P"].size = dcache.fs["P"].size)
              => dcache.got.value = dcache.saved["P"].duration

\* a loaded cache returned for P the 20 a set and a save had stored, next to
\* the entry of Q
C27_LoadedCacheReturnsSaved ==
    /\ dcache.pc = "ready"
    /\ dcache.loaded
    /\ "P" \in DOMAIN dcache.saved /\ dcache.saved["P"].duration = 20
    /\ "Q" \in DOMAIN dcache.cache
    /\ dcache.got = [path |-> "P", value |-> 20]

\* C28: a start that finds a state file corrupt goes through to the constructed
\* downloader; the store of each such file (History, Resume store, Duration
\* Cache, download log, last-download snapshot) is then its empty default in
\* memory, and the file holds that default, written by this start.
C28_CorruptStoresReset ==
    /\ check_dependencies(boot.tools) => boot.pc # "exited"
    /\ boot.pc = "started" =>
          \A f \in StateFiles \ {"config"} :
              boot.disk0[f] = "corrupt" =>
                  /\ boot.mem[f] = "default"
                  /\ boot.disk[f] = "default"

\* C29: a start with a required tool absent ends in the exit of main, and up
\* to that exit no state file and no directory has been read, created or
\* written.
C29_NoStateTouchedWithoutTools ==
    boot.pc # None /\ ~ (RequiredTools \subseteq boot.tools) =>
        /\ boot.pc \in {"main", "exited"}
        /\ boot.touched = {}
        /\ boot.disk = boot.disk0
        /\ \A f \in StateFiles : boot.mem[f] = "unset"

\* ffprobe alone is absent, the History file is corrupt, and main has exited
C29_ExitedOnMissingProbe ==
    /\ boot.pc = "exited"
    /\ boot.tools = {"yt-dlp", "ffmpeg"}
    /\ boot.disk["channel_history"] = "corrupt"
    /\ boot.disk["config"] = "missing"

\* C30: the History of a source never holds more than 1000 entries; a commit
\* of an id it holds leaves it as it is, and a commit of any other id appends
\* the id and, when that makes 1001 entries, drops the first one, the oldest by
\* append order, and no other.
C30_CapDropsOldest ==
    /\ [](\A h \in DOMAIN channel_history.channels :
             Len(channel_history.channels[h].downloaded_videos) <= HistoryCap)
    /\ [][ LET old == downloaded_videos("h1")
               new == channel_history'.channels["h1"].downloaded_videos
               id == commit_log'[Len(commit_log')].id
           IN  new = IF id \in Range(old) THEN old
                     ELSE IF Len(old) = HistoryCap THEN Tail(Append(old, id))
                     ELSE Append(old, id) ]_vars

\* three commits to a History of 1000 entries: the three oldest are gone, the
\* fourth is now the first, the new ids are the last
C30_ThreeEvicted ==
    /\ Len(downloaded_videos("h1")) = HistoryCap
    /\ downloaded_videos("h1")[1] = "4"
    /\ SubSeq(downloaded_videos("h1"), HistoryCap - 2, HistoryCap) = << "v2", "v3", "v1" >>

----------------------------------------------------------------------------
(* C31 *)

\* C31: when load_resume_state has completed at a start of the process, no
\* entry whose timestamp is older than now - resume_cache_days is left in the
\* store in memory or in the resume file, and every entry of the file the
\* start found that is younger than that is in both, unchanged
C31_EvictionSweep ==
    boot.pc = "loaded" =>
        LET cutoff == boot.now - ResumeCacheDays
            found == IF boot.file0.state = "ok" THEN boot.file0.videos ELSE EmptyMap
        IN  /\ resume_state_file.state = "ok"
            /\ \A store \in {resume_state, resume_state_file.videos} :
                  /\ \A k \in DOMAIN store : ~ (entry_time(store[k]) < cutoff)
                  /\ \A k \in DOMAIN found :
                        entry_time(found[k]) > cutoff =>
                            k \in DOMAIN store /\ store[k] = found[k]

\* a start that found one entry older than the cutoff and one younger
C31_OldDroppedYoungKept ==
    /\ boot.pc = "loaded"
    /\ boot.file0.state = "ok"
    /\ \E a, b \in DOMAIN boot.file0.videos :
          /\ entry_time(boot.file0.videos[a]) < boot.now - ResumeCacheDays
          /\ entry_time(boot.file0.videos[b]) > boot.now - ResumeCacheDays
          /\ a \notin DOMAIN resume_state_file.videos
          /\ b \in DOMAIN resume_state

----------------------------------------------------------------------------
(* C32 *)

\* s can be had from t by leaving elements out
RECURSIVE IsSubseq(_, _)
IsSubseq(s, t) ==
    IF s = <<>> THEN TRUE
    ELSE IF t = <<>> THEN FALSE
    ELSE IF Head(s) = Head(t) THEN IsSubseq(Tail(s), Tail(t))
    ELSE IsSubseq(s, Tail(t))

\* the tasks of the sources from..Len(Sources), source by source
RECURSIVE TasksBySource(_)
TasksBySource(from) ==
    IF from > Len(Sources) THEN <<>>
    ELSE TasksOf(Sources[from].key) \o TasksBySource(from + 1)

----------------------------------------------------------------------------
(* C33 *)

\* C33: a pass that reaches its end leaves the first-run flag cleared, in memory
\* and in the History file, whatever the pass did (limit 0, no tasks, every
\* download failing); once the flag is cleared no step of a pass and no restart
\* of the process over the History file sets it back
C33_FirstRunFlagMonotonic ==
    [][ /\ (pc = "summary" /\ pc' = "idle")
           => /\ channel_history'.first_run_completed
              /\ channel_history_file'.first_run_completed
        /\ channel_history.first_run_completed
           => channel_history'.first_run_completed
        /\ channel_history_file.first_run_completed
           => channel_history_file'.first_run_completed ]_vars

\* a first pass whose downloads all failed has ended, and the process has died
\* in the pass after it and been started again
C33_FailedFirstPassThenRestart ==
    /\ pc = "idle"
    /\ Len(pass_log) = 2
    /\ pass_log[1].first_run /\ pass_log[1].failed /\ ~ pass_log[1].appended
    /\ ~ pass_log[1].crashed
    /\ pass_log[2].crashed
    /\ ~ is_first_run

----------------------------------------------------------------------------
(* C34 *)

Max(a, b) == IF a > b THEN a ELSE b

----------------------------------------------------------------------------
(* C35 *)

\* C35: save() writes the cache file when a set() stored an entry since the
\* cache was loaded or last saved with success, and leaves the file alone
\* otherwise; after a save that wrote, the flag is clear; a save whose write
\* raised leaves the flag set and the cache as it was; set() on a missing file
\* leaves the entry of that file and the flag as they were.  pending is the
\* record of the sets that stored an entry, so the last line says that the
\* flag is set exactly by those
C35_DirtyFlag ==
    [][ /\ dcache'.last = "save" =>
              /\ dcache'.cache = dcache.cache
              /\ ~ dcache'.dirty
              /\ IF dcache.pending
                 THEN dcache'.file = [state |-> "ok", text |-> cache_dump(dcache.cache)]
                 ELSE dcache'.file = dcache.file
        /\ dcache'.last = "save raised" =>
              /\ dcache.pending
              /\ dcache'.dirty
              /\ dcache'.cache = dcache.cache
        /\ (dcache'.last = "set" /\ "P" \notin DOMAIN dcache.fs) =>
              /\ "P" \in DOMAIN dcache.cache => /\ "P" \in DOMAIN dcache'.cache
                                                /\ dcache'.cache["P"] = dcache.cache["P"]
              /\ "P" \notin DOMAIN dcache.cache => "P" \notin DOMAIN dcache'.cache
        /\ dcache'.dirty = dcache'.pending ]_vars

\* an entry of P was stored and the save raised with the file torn; P was then
\* deleted, and a set on it has left the entry and the flag as they were
C35_SetOnDeletedAfterFailedSave ==
    /\ dcache.pc = "ready"
    /\ dcache.last = "set"
    /\ "P" \notin DOMAIN dcache.fs
    /\ "P" \in DOMAIN dcache.cache
    /\ dcache.dirty
    /\ dcache.file.state = "corrupt"

----------------------------------------------------------------------------
(* C36 *)

\* C36: the sequence a scan returns holds only records of the output of the
\* attempt that completed: it is the records of the listing with elements left
\* out, none of them twice, whatever earlier attempts of the scan had parsed
\* before they failed
C36_SingleAttemptResult ==
    scanner.pc = "returned" =>
        IsSubseq(scanner.out.videos,
                 SelectSeq(upstream[ChannelUrl("h1")], is_record))

----------------------------------------------------------------------------
(* C37 *)

\* C37: within a pass no two jobs for the same item id are pending or running
\* at the same time, also when two sources list the item
C37_OneJobPerId ==
    \A i, j \in DOMAIN jobs :
        (/\ i # j
         /\ all_download_tasks[i].video_info.id = all_download_tasks[j].video_info.id)
        => ~ (/\ jobs[i].st \in {"queued", "running"}
              /\ jobs[j].st \in {"queued", "running"})

----------------------------------------------------------------------------
(* C38 *)

\* C38: with every launched process exiting and no prompt pending, every pass
\* that has started reaches its summary, and at the summary every submitted job
\* has finished and been collected, whatever mix of successes, failures and
\* exceptions the jobs ended in
C38_PassTerminates ==
    /\ [](pc = "summary" => \A i \in DOMAIN jobs : jobs[i].st = "collected")
    /\ (pc # "idle") ~> (pc = "summary")

\* a pass is at its summary after two jobs, one that succeeded and one that
\* failed or raised
C38_SummaryAfterSuccessAndFailure ==
    /\ pc = "summary"
    /\ Len(jobs) = 2
    /\ \E i, j \in DOMAIN jobs : jobs[i].success /\ ~ jobs[j].success
    /\ pass_stats.failed

----------------------------------------------------------------------------
(* C39 *)

\* C39: download_playlist returns (False, None) when no playlist information
\* was obtained or the retrieval process could not be launched; otherwise it
\* has launched the process and returns the playlist directory, with True
\* exactly when the process exited with code 0
C39_PlaylistOutcome ==
    exec.pc = "returned" =>
        LET r == exec.result
            nothing == [success |-> FALSE, dir |-> NoDir, launched |-> FALSE]
        IN  IF exec.playlist_info = NoPlaylistInfo \/ ~ exec.popen_ok
            THEN r = nothing
            ELSE /\ r.launched
                 /\ r.dir = PlaylistDir(exec.playlist_info.title, exec.download_type)
                 /\ r.success <=> exec.return_code = 0

====
